---- MODULE Spec2Model ----
(***************************************************************************)
(* Model of the Notion MCP server: the conversion core of                  *)
(* src/src/notion_service.py (extract_title, rich_text_to_plain_text,      *)
(* blocks_to_text, text_to_blocks), the seven NotionService handlers and   *)
(* NotionMCPServer.call_tool of src/src/notion_mcp_server.py.              *)
(*                                                                         *)
(* A Python str is a sequence of one-character strings; a character that   *)
(* is not ASCII is written as its code point ("U+2705").  A fixed Korean   *)
(* literal of the source is one element naming the literal ("<...>").      *)
(* A Python dict is a function whose domain is the set of its keys, so a   *)
(* missing key is a key outside the DOMAIN.                                *)
(***************************************************************************)
EXTENDS Integers, Sequences, FiniteSets, TLC

VARIABLES
    phase,       \* position of the run: what has been applied so far
    in_text,     \* markdown string given to text_to_blocks
    out_blocks,  \* blocks returned by text_to_blocks
    in_blocks,   \* block list given to blocks_to_text
    notion,      \* the API client: its answer to every call
    out_text,    \* outcome of blocks_to_text
    in_record,   \* record given to extract_title
    out_title,   \* result of extract_title
    request,     \* the tool invocation being served
    api_calls,   \* the API calls issued while serving it, in order
    response,    \* outcome of the tool invocation
    in_rich_text,    \* span sequences given to rich_text_to_plain_text
    out_plain_text,  \* results of rich_text_to_plain_text
    environ,     \* os.environ after load_dotenv()
    server,      \* the server process: which module runs, client, tools
    files,       \* the scripts directory: file name to content
    now,         \* the wall clock, in ticks
    created,     \* create_script_file calls that reported success
    script_result,  \* result of the last create_script_file call
    core_call,      \* a call of one conversion routine: its name and input
    core_function,  \* its outcome in notion_service.py
    core_method,    \* its outcome in NotionMCPServer
    walk            \* a run of blocks_to_text, step by step: its call stack,
                    \* the fetches issued, the blocks visited, its result

plain_vars == <<in_rich_text, out_plain_text>>

startup_vars == <<environ, server>>

script_vars == <<files, now, created, script_result>>

core_vars == <<core_call, core_function, core_method, walk>>

vars == <<phase, in_text, out_blocks, in_blocks, notion, out_text, in_record,
          out_title, request, api_calls, response, plain_vars, startup_vars,
          script_vars, core_vars>>

None == "None"

----------------------------------------------------------------------------
(* Bounds *)

MaxTextLen == 5

MaxBlocks == 2

MaxSpans == 2

MaxProps == 2

MaxResults == 2

----------------------------------------------------------------------------
(* Python primitives *)

HasKey(d, k) == k \in DOMAIN d

Get(d, k, default) == IF k \in DOMAIN d THEN d[k] ELSE default

\* {}
Dict0 == [k \in {} |-> None]

\* The parts of the state a specification does not use
NoPlainText == in_rich_text = None /\ out_plain_text = None

\* no Client object has been constructed
NotBuilt == [built |-> FALSE]

\* the process before start-up: no module has run
NoServer == [state |-> "none", impl |-> "none", client |-> NotBuilt, tools |-> {}, exc |-> <<>>]

NoStartup == environ = Dict0 /\ server = NoServer

NoCore == core_call = None /\ core_function = None /\ core_method = None /\ walk = None

NoScripts == files = Dict0 /\ now = 0 /\ created = 0 /\ script_result = None

Return(v) == [kind |-> "return", value |-> v]

Raise(e) == [kind |-> "raise", exc |-> e]

Whitespace == {" ", "\t", "\n", "\r"}

MinOf(S) == CHOOSE x \in S : \A y \in S : x <= y

MaxOf(S) == CHOOSE x \in S : \A y \in S : x >= y

\* s[n:]
From(s, n) == SubSeq(s, n + 1, Len(s))

\* s.startswith(p)
StartsWith(s, p) == Len(s) >= Len(p) /\ SubSeq(s, 1, Len(p)) = p

\* s.strip()
Strip(s) ==
    LET keep == {i \in 1..Len(s) : s[i] \notin Whitespace}
    IN  IF keep = {} THEN <<>> ELSE SubSeq(s, MinOf(keep), MaxOf(keep))

\* s.split(sep) for a one-character separator
RECURSIVE Split(_, _)
Split(s, sep) ==
    LET at == {i \in 1..Len(s) : s[i] = sep}
    IN  IF at = {} THEN <<s>>
        ELSE <<SubSeq(s, 1, MinOf(at) - 1)>> \o Split(From(s, MinOf(at)), sep)

\* sep.join(parts)
RECURSIVE Join(_, _)
Join(sep, parts) ==
    IF parts = <<>> THEN <<>>
    ELSE IF Len(parts) = 1 THEN parts[1]
    ELSE parts[1] \o sep \o Join(sep, Tail(parts))

\* "".join(parts)
RECURSIVE Concat(_)
Concat(parts) == IF parts = <<>> THEN <<>> ELSE parts[1] \o Concat(Tail(parts))

----------------------------------------------------------------------------
(* notion_service.py: text_to_blocks *)

\* the dict appended for one line: lines 109-157
TextBlock(type, content) ==
    [object |-> "block", type |-> type]
    @@ (type :> [rich_text |-> <<[type |-> "text", text |-> [content |-> content]]>>])

\* block_of_line testing the first character only: every "#" line is heading_1
block_of_line_first_char(line) ==
    IF StartsWith(line, <<"#">>) THEN TextBlock("heading_1", From(line, 2))
    ELSE IF StartsWith(line, <<"-">>) THEN TextBlock("bulleted_list_item", From(line, 2))
    ELSE TextBlock("paragraph", line)

\* the if/elif chain on one stripped, non-empty line: lines 108-157
block_of_line(line) ==
    IF StartsWith(line, <<"#", " ">>) THEN TextBlock("heading_1", From(line, 2))
    ELSE IF StartsWith(line, <<"#", "#", " ">>) THEN TextBlock("heading_2", From(line, 3))
    ELSE IF StartsWith(line, <<"#", "#", "#", " ">>) THEN TextBlock("heading_3", From(line, 4))
    ELSE IF StartsWith(line, <<"-", " ">>) THEN TextBlock("bulleted_list_item", From(line, 2))
    ELSE TextBlock("paragraph", line)

\* blocks_of_lines without the "if not line: continue"
blocks_of_lines_keep_blank(lines) ==
    [i \in 1..Len(lines) |-> block_of_line(Strip(lines[i]))]

\* the for loop over the lines: lines 103-157
RECURSIVE blocks_of_lines(_)
blocks_of_lines(lines) ==
    IF lines = <<>> THEN <<>>
    ELSE LET line == Strip(lines[1])
         IN  IF line = <<>> THEN blocks_of_lines(Tail(lines))
             ELSE <<block_of_line(line)>> \o blocks_of_lines(Tail(lines))

text_to_blocks(t) == blocks_of_lines(Split(t, "\n"))

----------------------------------------------------------------------------
(* notion_service.py: rich_text_to_plain_text, blocks_to_text *)

\* a join with a blank between the spans
rich_text_to_plain_text_spaced(rich_text) ==
    Join(<<" ">>, [i \in 1..Len(rich_text) |-> Get(rich_text[i], "plain_text", <<>>)])

rich_text_to_plain_text(rich_text) ==
    Concat([i \in 1..Len(rich_text) |-> Get(rich_text[i], "plain_text", <<>>)])

KeyError == <<"KeyError">>

\* three backticks (U+0060)
Fence == <<"U+0060", "U+0060", "U+0060">>

\* a join with one newline
Separator_one_newline == <<"\n">>

\* the separator of the final join: line 95
Separator == <<"\n", "\n">>

\* the chain with a branch for the divider kind
RenderedTypes_and_divider ==
    {"paragraph", "heading_1", "heading_2", "heading_3", "bulleted_list_item",
     "numbered_list_item", "to_do", "code", "divider"}

\* the kinds the if/elif chain has a branch for: lines 61-83
RenderedTypes ==
    {"paragraph", "heading_1", "heading_2", "heading_3", "bulleted_list_item",
     "numbered_list_item", "to_do", "code"}

\* a prefix that numbers the item by its position among its siblings
numbered_prefix_by_position(block) == <<block.id[Len(block.id)], ".", " ">>

\* the prefix of f"1. {text}": line 78
numbered_prefix(block) == <<"1", ".", " ">>

\* the if/elif chain on block_type: lines 59-86.  Returns the strings the
\* chain appends to text_parts (none or one), or raises on a missing key.
own_text(block) ==
    LET block_type == Get(block, "type", None)
    IN  IF block_type \notin RenderedTypes THEN Return(<<>>)
        ELSE IF ~HasKey(block, block_type) THEN Raise(KeyError)
        ELSE IF ~HasKey(block[block_type], "rich_text") THEN Raise(KeyError)
        ELSE
          LET payload == block[block_type]
              text == rich_text_to_plain_text(payload.rich_text)
          IN  CASE block_type = "paragraph" -> Return(<<text>>)
                [] block_type = "heading_1" -> Return(<<(<<"#", " ">> \o text)>>)
                [] block_type = "heading_2" -> Return(<<(<<"#", "#", " ">> \o text)>>)
                [] block_type = "heading_3" -> Return(<<(<<"#", "#", "#", " ">> \o text)>>)
                [] block_type = "bulleted_list_item" -> Return(<<(<<"-", " ">> \o text)>>)
                [] block_type = "numbered_list_item" ->
                     Return(<<(numbered_prefix(block) \o text)>>)
                [] block_type = "to_do" ->
                     IF ~HasKey(payload, "checked") THEN Raise(KeyError)
                     ELSE LET checked == IF payload.checked THEN <<"U+2705">> ELSE <<"U+2610">>
                          IN  Return(<<(checked \o <<" ">> \o text)>>)
                [] block_type = "code" ->
                     LET language == Get(payload, "language", <<>>)
                     IN  Return(<<(Fence \o language \o <<"\n">> \o text \o <<"\n">> \o Fence)>>)

\* notion_client.blocks.children.list(block_id): the answer of the client
ChildrenList(notion_client, block_id) == notion_client.children[block_id]

ListCall(block_id) == [api |-> "blocks.children.list", block_id |-> block_id]

\* a decode that gives back what it has rendered when the fetch fails
Decoded_salvage(outcome, calls, rendered) ==
    (IF outcome.kind = "raise" THEN Return(Join(<<"\n", "\n">>, rendered)) ELSE outcome)
    @@ [calls |-> calls, rendered |-> rendered]

\* What a decode leaves behind: the API calls it issued and every own text it
\* had rendered (at any depth) when it returned or raised.
Decoded(outcome, calls, rendered) == outcome @@ [calls |-> calls, rendered |-> rendered]

\* the text of the children appended whatever it is
with_child_text_always(text_parts, child_text) == Append(text_parts, child_text)

\* the text of the children put before everything rendered so far
with_child_text_first(text_parts, child_text) ==
    IF Len(child_text) > 0 THEN <<child_text>> \o text_parts ELSE text_parts

\* "if child_text: text_parts.append(child_text)": lines 92-93
with_child_text(text_parts, child_text) ==
    IF Len(child_text) > 0 THEN Append(text_parts, child_text) ELSE text_parts

\* blocks_to_text: lines 54-95.  decode_loop is the for loop from block i on,
\* with the text_parts built so far.
RECURSIVE blocks_to_text(_, _)
RECURSIVE decode_loop(_, _, _, _, _, _)
decode_loop(block_list, i, text_parts, notion_client, calls, rendered) ==
    IF i > Len(block_list)
    THEN Decoded(Return(Join(Separator, text_parts)), calls, rendered)
    ELSE
      LET block == block_list[i]
          own == own_text(block)
      IN  IF own.kind = "raise" THEN Decoded(own, calls, rendered)
          ELSE
            LET parts == text_parts \o own.value
                seen == rendered \o own.value
            IN  IF Get(block, "has_children", FALSE) = TRUE
                THEN IF ~HasKey(block, "id") THEN Decoded(Raise(KeyError), calls, seen)
                     ELSE
                       LET children == ChildrenList(notion_client, block.id)
                           called == Append(calls, ListCall(block.id))
                       IN  IF children.kind = "raise"
                           THEN Decoded(children, called, seen)
                           ELSE
                             LET child == blocks_to_text(children.value.results, notion_client)
                                 child_text == child.value
                             IN  IF child.kind = "raise"
                                 THEN Decoded(Raise(child.exc), called \o child.calls,
                                              seen \o child.rendered)
                                 ELSE decode_loop(block_list, i + 1,
                                        with_child_text(parts, child_text),
                                        notion_client, called \o child.calls,
                                        seen \o child.rendered)
                ELSE decode_loop(block_list, i + 1, parts, notion_client, calls, seen)

blocks_to_text(block_list, notion_client) ==
    decode_loop(block_list, 1, <<>>, notion_client, <<>>, <<>>)

----------------------------------------------------------------------------
(* notion_service.py: extract_title *)

\* "".join([t.get("plain_text", "") for t in title_array]): lines 38, 44
JoinPlainText(title_array) ==
    Concat([i \in 1..Len(title_array) |-> Get(title_array[i], "plain_text", <<>>)])

\* an empty sentinel
Sentinel_empty == <<>>

\* the sentinel of line 46 (U+C81C U+BAA9, a blank, U+C5C6 U+C74C)
Sentinel == <<"U+C81C", "U+BAA9", " ", "U+C5C6", "U+C74C">>

\* the for loop over page_or_db["properties"].items(): lines 34-38.  A dict
\* keeps its insertion order, so the items are a sequence of <<name, value>>.
RECURSIVE title_of_properties(_)
title_of_properties(items) ==
    IF Len(items) = 0 THEN [found |-> FALSE]
    ELSE LET prop_value == items[1][2]
             title_array == Get(prop_value, "title", <<>>)
         IN  IF Get(prop_value, "type", None) = "title" /\ Len(title_array) > 0
             THEN [found |-> TRUE, value |-> JoinPlainText(title_array)]
             ELSE title_of_properties(Tail(items))

\* lines 41-46
title_of_database(page_or_db) ==
    IF HasKey(page_or_db, "title") /\ Len(page_or_db.title) > 0
    THEN JoinPlainText(page_or_db.title)
    ELSE Sentinel

\* extract_title trying the top-level title before the properties
extract_title_database_first(page_or_db) ==
    IF HasKey(page_or_db, "title") /\ Len(page_or_db.title) > 0
    THEN JoinPlainText(page_or_db.title)
    ELSE LET page == IF HasKey(page_or_db, "properties")
                     THEN title_of_properties(page_or_db.properties)
                     ELSE [found |-> FALSE]
         IN  IF page.found THEN page.value ELSE Sentinel

extract_title(page_or_db) ==
    LET page == IF HasKey(page_or_db, "properties")
                THEN title_of_properties(page_or_db.properties)
                ELSE [found |-> FALSE]
    IN  IF page.found THEN page.value ELSE title_of_database(page_or_db)

----------------------------------------------------------------------------
(* Formatting: str(int), json.dumps(..., ensure_ascii=False, indent=2)      *)

DigitChars == <<"0", "1", "2", "3", "4", "5", "6", "7", "8", "9">>

\* str(n) for n >= 0
RECURSIVE DigitsOf(_)
DigitsOf(n) ==
    IF n < 10 THEN <<DigitChars[n + 1]>>
    ELSE DigitsOf(n \div 10) \o <<DigitChars[(n % 10) + 1]>>

\* the indentation of nesting level d
Pad(d) == [j \in 1..(2 * d) |-> " "]

JsonString(str) == <<"\"">> \o str \o <<"\"">>

JsonMember(key, value) == JsonString(<<key>>) \o <<":", " ">> \o value

\* a list or dict at level d whose items are already rendered at level d + 1
JsonContainer(open, close, items, d) ==
    IF Len(items) = 0 THEN <<open, close>>
    ELSE <<open, "\n">>
         \o Join(<<",", "\n">>, [i \in 1..Len(items) |-> Pad(d + 1) \o items[i]])
         \o <<"\n">> \o Pad(d) \o <<close>>

JsonArray(items, d) == JsonContainer("[", "]", items, d)

JsonObject(members, d) == JsonContainer("{", "}", members, d)

\* the members of dict v for the keys it has, in the order of keys
JsonSpan(span, d) ==
    JsonObject(
        (IF HasKey(span, "type") THEN <<JsonMember("type", JsonString(<<span.type>>))>> ELSE <<>>)
        \o (IF HasKey(span, "plain_text")
            THEN <<JsonMember("plain_text", JsonString(span.plain_text))>> ELSE <<>>),
        d)

JsonSpans(spans, d) == JsonArray([i \in 1..Len(spans) |-> JsonSpan(spans[i], d + 1)], d)

JsonPropertyValue(v, d) ==
    JsonObject(
        (IF HasKey(v, "id") THEN <<JsonMember("id", JsonString(<<v.id>>))>> ELSE <<>>)
        \o (IF HasKey(v, "type") THEN <<JsonMember("type", JsonString(<<v.type>>))>> ELSE <<>>)
        \o (IF HasKey(v, "title") THEN <<JsonMember("title", JsonSpans(v.title, d + 1))>> ELSE <<>>)
        \o (IF HasKey(v, "rich_text")
            THEN <<JsonMember("rich_text", JsonSpans(v.rich_text, d + 1))>> ELSE <<>>),
        d)

\* json.dumps of a properties mapping at level d
JsonProperties(items, d) ==
    JsonObject([i \in 1..Len(items) |->
                   JsonMember(items[i][1], JsonPropertyValue(items[i][2], d + 1))], d)

----------------------------------------------------------------------------
(* notion_service.py: NotionService.  A method body returns or raises, and  *)
(* carries the API calls it issued.                                         *)

Returned(value, calls) == [kind |-> "return", value |-> value, calls |-> calls]

Raised(exc, calls) == [kind |-> "raise", exc |-> exc, calls |-> calls]

\* an except clause that raises the exception again
except_return_reraise(outcome, message) == outcome

\* "except Exception as e: return f'<message>{str(e)}'": lines 216-218,
\* 244-246, 266-268, 296-298, 328-330, 372-374, 391-393
except_return(outcome, message) ==
    IF outcome.kind = "raise"
    THEN [k \in (DOMAIN outcome \ {"exc"}) \cup {"value"} |->
            IF k = "kind" THEN "return"
            ELSE IF k = "value" THEN message \o outcome.exc
            ELSE outcome[k]]
    ELSE outcome

\* a test of presence only
Given_when_present(arguments, key) == HasKey(arguments, key)

\* "if x:" for an optional str, dict or list argument (None when not given)
Given(arguments, key) == HasKey(arguments, key) /\ arguments[key] # <<>>

\* The fixed Korean literals of the messages, one element each
SearchHeader(n) == <<"<Search results (>">> \o DigitsOf(n) \o <<"< items):>", "\n">>
SearchError == <<"<An error occurred during the search: >">>
PageInfoHeader == <<"<Page information:>", "\n">>
PageInfoError == <<"<An error occurred while retrieving the page: >">>
PageContentError == <<"<An error occurred while retrieving the page content: >">>
PageCreated == <<"<The page was created successfully!>">>
PageCreateError == <<"<An error occurred while creating the page: >">>
PageUpdated == <<"<The page was updated successfully!>">>
PageUpdateError == <<"<An error occurred while updating the page: >">>
QueryHeader(n) == <<"<Database query results (>">> \o DigitsOf(n) \o <<"< items):>", "\n">>
QueryError == <<"<An error occurred while querying the database: >">>
EntryCreated == <<"<The database entry was created successfully!>">>
EntryCreateError == <<"<An error occurred while creating the database entry: >">>

IdAndUrl(new_page) ==
    <<"\n", "I", "D", ":", " ">> \o new_page.id \o <<"\n", "U", "R", "L", ":", " ">> \o new_page.url

\* search: the loop of lines 188-209
\* a loop that formats every result, whatever its object
formatted_search_results_unfiltered(results) ==
    [i \in 1..Len(results) |->
        [id |-> results[i].id, type |-> results[i].object,
         title |-> extract_title(results[i]), url |-> results[i].url]]

RECURSIVE formatted_search_results(_)
formatted_search_results(results) ==
    IF Len(results) = 0 THEN <<>>
    ELSE LET result == results[1]
         IN  (IF result.object \in {"page", "database"}
              THEN <<[id |-> result.id, type |-> result.object,
                      title |-> extract_title(result), url |-> result.url]>>
              ELSE <<>>)
             \o formatted_search_results(Tail(results))

\* the header without the payload
JsonSearchResults_omitted(formatted_results) == <<>>

JsonSearchResults(formatted_results) ==
    JsonArray([i \in 1..Len(formatted_results) |->
        JsonObject(<<JsonMember("id", JsonString(formatted_results[i].id)),
                     JsonMember("type", JsonString(<<formatted_results[i].type>>)),
                     JsonMember("title", JsonString(formatted_results[i].title)),
                     JsonMember("url", JsonString(formatted_results[i].url))>>, 1)], 0)

\* search: lines 181-214
search_try(arguments, notion_client) ==
    LET search_params ==
            IF Given(arguments, "filter_type")
            THEN [query |-> arguments.query,
                  filter |-> [value |-> arguments.filter_type, property |-> "object"]]
            ELSE [query |-> arguments.query]
        called == <<[api |-> "search", params |-> search_params]>>
        results == notion_client.search
    IN  IF results.kind = "raise" THEN Raised(results.exc, called)
        ELSE LET formatted_results == formatted_search_results(results.value.results)
             IN  Returned(SearchHeader(Len(formatted_results))
                            \o JsonSearchResults(formatted_results), called)

NotionService_search(arguments, notion_client) ==
    except_return(search_try(arguments, notion_client), SearchError)

\* get_page_info: lines 226-242
get_page_info_try(arguments, notion_client) ==
    LET called == <<[api |-> "pages.retrieve", page_id |-> arguments.page_id]>>
        page == notion_client.retrieve
    IN  IF page.kind = "raise" THEN Raised(page.exc, called)
        ELSE LET title == extract_title(page.value)
             IN  Returned(
                   PageInfoHeader
                   \o JsonObject(
                        <<JsonMember("id", JsonString(page.value.id)),
                          JsonMember("title", JsonString(title)),
                          JsonMember("url", JsonString(page.value.url)),
                          JsonMember("created_time", JsonString(page.value.created_time)),
                          JsonMember("last_edited_time", JsonString(page.value.last_edited_time)),
                          JsonMember("properties",
                                     JsonProperties(Get(page.value, "properties", <<>>), 1))>>, 0),
                   called)

NotionService_get_page_info(arguments, notion_client) ==
    except_return(get_page_info_try(arguments, notion_client), PageInfoError)

NotDecoded == [kind |-> "none"]

\* get_page_content: lines 254-264.  The outcome also carries what
\* blocks_to_text left behind, when it was called.
get_page_content_try(arguments, notion_client) ==
    LET retrieved == <<[api |-> "pages.retrieve", page_id |-> arguments.page_id]>>
        page == notion_client.retrieve
    IN  IF page.kind = "raise" THEN Raised(page.exc, retrieved) @@ [content |-> NotDecoded]
        ELSE
          LET title == extract_title(page.value)
              listed == Append(retrieved, ListCall(arguments.page_id))
              block_list == ChildrenList(notion_client, arguments.page_id)
          IN  IF block_list.kind = "raise"
              THEN Raised(block_list.exc, listed) @@ [content |-> NotDecoded]
              ELSE
                LET content == blocks_to_text(block_list.value.results, notion_client)
                IN  IF content.kind = "raise"
                    THEN Raised(content.exc, listed \o content.calls) @@ [content |-> content]
                    ELSE Returned(<<"#", " ">> \o title \o <<"\n", "\n">> \o content.value,
                                  listed \o content.calls) @@ [content |-> content]

NotionService_get_page_content(arguments, notion_client) ==
    except_return(get_page_content_try(arguments, notion_client), PageContentError)

\* properties={"title": {"title": [{"text": {"content": title}}]}}
TitleProperty(title) == [title |-> [title |-> <<[text |-> [content |-> title]]>>]]

\* the append issued whatever text_to_blocks returned
append_content_always(arguments, block_id, notion_client, calls) ==
    IF ~Given(arguments, "content") THEN Returned(None, calls)
    ELSE LET block_list == text_to_blocks(arguments.content)
             called == Append(calls, [api |-> "blocks.children.append",
                                      block_id |-> block_id,
                                      children |-> block_list])
         IN  IF notion_client.append.kind = "raise"
             THEN Raised(notion_client.append.exc, called)
             ELSE Returned(None, called)

\* "if content: blocks = text_to_blocks(content); if blocks: append(...)":
\* lines 286-291 and 319-324.  Returns the calls issued, or raises.
append_content(arguments, block_id, notion_client, calls) ==
    IF ~Given(arguments, "content") THEN Returned(None, calls)
    ELSE LET block_list == text_to_blocks(arguments.content)
         IN  IF Len(block_list) = 0 THEN Returned(None, calls)
             ELSE LET called == Append(calls, [api |-> "blocks.children.append",
                                               block_id |-> block_id,
                                               children |-> block_list])
                  IN  IF notion_client.append.kind = "raise"
                      THEN Raised(notion_client.append.exc, called)
                      ELSE Returned(None, called)

\* create_page reporting the new page although the append failed
create_page_try_append_ignored(arguments, notion_client) ==
    LET called == <<[api |-> "pages.create",
                     parent |-> [page_id |-> arguments.parent_id],
                     properties |-> TitleProperty(arguments.title)]>>
        new_page == notion_client.create
    IN  IF new_page.kind = "raise" THEN Raised(new_page.exc, called)
        ELSE LET appended == append_content(arguments, new_page.value.id, notion_client, called)
             IN  Returned(PageCreated \o IdAndUrl(new_page.value), appended.calls)

\* create_page: lines 278-294
create_page_try(arguments, notion_client) ==
    LET called == <<[api |-> "pages.create",
                     parent |-> [page_id |-> arguments.parent_id],
                     properties |-> TitleProperty(arguments.title)]>>
        new_page == notion_client.create
    IN  IF new_page.kind = "raise" THEN Raised(new_page.exc, called)
        ELSE LET appended == append_content(arguments, new_page.value.id, notion_client, called)
             IN  IF appended.kind = "raise" THEN appended
                 ELSE Returned(PageCreated \o IdAndUrl(new_page.value), appended.calls)

NotionService_create_page(arguments, notion_client) ==
    except_return(create_page_try(arguments, notion_client), PageCreateError)

\* update_page going on to the append after a failed pages.update
update_page_try_after_failure(arguments, notion_client) ==
    LET called == IF Given(arguments, "title")
                  THEN <<[api |-> "pages.update", page_id |-> arguments.page_id,
                          properties |-> TitleProperty(arguments.title)]>>
                  ELSE <<>>
        appended == append_content(arguments, arguments.page_id, notion_client, called)
    IN  IF appended.kind = "raise" THEN appended
        ELSE Returned(PageUpdated, appended.calls)

\* update_page sending the title whether it was given or not
update_page_try_title_always(arguments, notion_client) ==
    LET called == <<[api |-> "pages.update", page_id |-> arguments.page_id,
                     properties |-> TitleProperty(Get(arguments, "title", <<>>))]>>
    IN  IF notion_client.update.kind = "raise"
        THEN Raised(notion_client.update.exc, called)
        ELSE LET appended == append_content(arguments, arguments.page_id, notion_client, called)
             IN  IF appended.kind = "raise" THEN appended
                 ELSE Returned(PageUpdated, appended.calls)

\* update_page: lines 310-326
update_page_try(arguments, notion_client) ==
    LET called == IF Given(arguments, "title")
                  THEN <<[api |-> "pages.update", page_id |-> arguments.page_id,
                          properties |-> TitleProperty(arguments.title)]>>
                  ELSE <<>>
    IN  IF Given(arguments, "title") /\ notion_client.update.kind = "raise"
        THEN Raised(notion_client.update.exc, called)
        ELSE LET appended == append_content(arguments, arguments.page_id, notion_client, called)
             IN  IF appended.kind = "raise" THEN appended
                 ELSE Returned(PageUpdated, appended.calls)

NotionService_update_page(arguments, notion_client) ==
    except_return(update_page_try(arguments, notion_client), PageUpdateError)

\* query_database: the loop of lines 354-364
formatted_query_results(results) ==
    [i \in 1..Len(results) |->
        [id |-> results[i].id, title |-> extract_title(results[i]), url |-> results[i].url,
         properties |-> Get(results[i], "properties", <<>>)]]

JsonQueryResults(formatted_results) ==
    JsonArray([i \in 1..Len(formatted_results) |->
        JsonObject(<<JsonMember("id", JsonString(formatted_results[i].id)),
                     JsonMember("title", JsonString(formatted_results[i].title)),
                     JsonMember("url", JsonString(formatted_results[i].url)),
                     JsonMember("properties",
                                JsonProperties(formatted_results[i].properties, 2))>>, 1)], 0)

\* query_database: lines 345-370
query_database_try(arguments, notion_client) ==
    LET query_params ==
            [database_id |-> arguments.database_id]
            @@ (IF Given(arguments, "filter_condition")
                THEN [filter |-> arguments.filter_condition] ELSE Dict0)
            @@ (IF Given(arguments, "sorts") THEN [sorts |-> arguments.sorts] ELSE Dict0)
        called == <<[api |-> "databases.query", params |-> query_params]>>
        results == notion_client.query
    IN  IF results.kind = "raise" THEN Raised(results.exc, called)
        ELSE LET formatted_results == formatted_query_results(results.value.results)
             IN  Returned(QueryHeader(Len(formatted_results))
                            \o JsonQueryResults(formatted_results), called)

NotionService_query_database(arguments, notion_client) ==
    except_return(query_database_try(arguments, notion_client), QueryError)

\* create_database_entry: lines 383-389
create_database_entry_try(arguments, notion_client) ==
    LET called == <<[api |-> "pages.create",
                     parent |-> [database_id |-> arguments.database_id],
                     properties |-> arguments.properties]>>
        new_page == notion_client.create
    IN  IF new_page.kind = "raise" THEN Raised(new_page.exc, called)
        ELSE Returned(EntryCreated \o IdAndUrl(new_page.value), called)

NotionService_create_database_entry(arguments, notion_client) ==
    except_return(create_database_entry_try(arguments, notion_client), EntryCreateError)

----------------------------------------------------------------------------
(* notion_mcp_server.py: NotionMCPServer.  The statements of its seven      *)
(* handlers after the argument lookups are those of the NotionService       *)
(* methods, without the try/except; the result is a CallToolResult.         *)

\* CallToolResult(content=[TextContent(type="text", text=text)], isError=...)
CallToolResult(text, isError) ==
    [content |-> <<[type |-> "text", text |-> text]>>, isError |-> isError]

\* str(KeyError(key))
KeyErrorOf(key) == <<"'", key, "'">>

\* arguments[key] for each required key in the order of the lookups, then
\* the statements of the handler
Looked(arguments, required, outcome) ==
    IF \E i \in 1..Len(required) : ~HasKey(arguments, required[i])
    THEN LET first == MinOf({i \in 1..Len(required) : ~HasKey(arguments, required[i])})
         IN  Raised(KeyErrorOf(required[first]), <<>>) @@ [content |-> NotDecoded]
    ELSE IF outcome.kind = "return"
    THEN [outcome EXCEPT !.value = CallToolResult(@, FALSE)]
    ELSE outcome

\* lines 221-257
server_search_notion(arguments, notion_client) ==
    Looked(arguments, <<"query">>, search_try(arguments, notion_client))

\* lines 259-280
server_get_page(arguments, notion_client) ==
    Looked(arguments, <<"page_id">>, get_page_info_try(arguments, notion_client))

\* lines 282-298
server_get_page_content(arguments, notion_client) ==
    Looked(arguments, <<"page_id">>, get_page_content_try(arguments, notion_client))

\* lines 300-332
server_create_page(arguments, notion_client) ==
    Looked(arguments, <<"parent_id", "title">>, create_page_try(arguments, notion_client))

\* lines 334-365
server_update_page(arguments, notion_client) ==
    Looked(arguments, <<"page_id">>, update_page_try(arguments, notion_client))

\* lines 367-397: the filter is read from arguments.get("filter")
server_query_database(arguments, notion_client) ==
    Looked(arguments, <<"database_id">>,
           query_database_try(
               [k \in DOMAIN arguments \ {"filter", "filter_condition"} |-> arguments[k]]
               @@ (IF HasKey(arguments, "filter")
                   THEN [filter_condition |-> arguments.filter] ELSE Dict0),
               notion_client))

\* lines 399-416
server_create_database_entry(arguments, notion_client) ==
    Looked(arguments, <<"database_id", "properties">>,
           create_database_entry_try(arguments, notion_client))

UnknownTool == <<"<Unknown tool: >">>

ToolError == <<"<Error: >">>

\* call_tool: lines 192-219
call_tool(name, arguments, notion_client) ==
    LET handled ==
          CASE name = "search_notion" -> server_search_notion(arguments, notion_client)
            [] name = "get_page" -> server_get_page(arguments, notion_client)
            [] name = "get_page_content" -> server_get_page_content(arguments, notion_client)
            [] name = "create_page" -> server_create_page(arguments, notion_client)
            [] name = "update_page" -> server_update_page(arguments, notion_client)
            [] name = "query_database" -> server_query_database(arguments, notion_client)
            [] name = "create_database_entry" ->
                 server_create_database_entry(arguments, notion_client)
            [] OTHER -> Returned(CallToolResult(UnknownTool \o <<name>>, TRUE), <<>>)
    IN  IF handled.kind = "raise"
        THEN [k \in (DOMAIN handled \ {"exc"}) \cup {"value"} |->
                IF k = "kind" THEN "return"
                ELSE IF k = "value" THEN CallToolResult(ToolError \o handled.exc, TRUE)
                ELSE handled[k]]
        ELSE handled

----------------------------------------------------------------------------
(* notion_mcp_server.py: the conversion methods of NotionMCPServer,         *)
(* translated from lines 418-534.                                           *)

\* _rich_text_to_plain_text: lines 479-481
NotionMCPServer_rich_text_to_plain_text(rich_text) ==
    Concat([i \in 1..Len(rich_text) |-> Get(rich_text[i], "plain_text", <<>>)])

\* the for loop of _extract_title over the properties: lines 422-426
RECURSIVE NotionMCPServer_title_of_properties(_)
NotionMCPServer_title_of_properties(items) ==
    IF Len(items) = 0 THEN [found |-> FALSE]
    ELSE LET prop_value == items[1][2]
             title_array == Get(prop_value, "title", <<>>)
         IN  IF Get(prop_value, "type", None) = "title" /\ Len(title_array) > 0
             THEN [found |-> TRUE,
                   value |-> Concat([i \in 1..Len(title_array) |->
                                        Get(title_array[i], "plain_text", <<>>)])]
             ELSE NotionMCPServer_title_of_properties(Tail(items))

\* _extract_title: lines 418-434
NotionMCPServer_extract_title(page_or_db) ==
    LET page == IF HasKey(page_or_db, "properties")
                THEN NotionMCPServer_title_of_properties(page_or_db.properties)
                ELSE [found |-> FALSE]
    IN  IF page.found THEN page.value
        ELSE IF HasKey(page_or_db, "title") /\ Len(page_or_db.title) > 0
        THEN Concat([i \in 1..Len(page_or_db.title) |->
                        Get(page_or_db.title[i], "plain_text", <<>>)])
        ELSE <<"U+C81C", "U+BAA9", " ", "U+C5C6", "U+C74C">>

\* the if/elif chain of _blocks_to_text on block_type: lines 441-468
NotionMCPServer_own_text(block) ==
    LET block_type == Get(block, "type", None)
    IN  IF block_type \notin {"paragraph", "heading_1", "heading_2", "heading_3",
                              "bulleted_list_item", "numbered_list_item", "to_do", "code"}
        THEN Return(<<>>)
        ELSE IF ~HasKey(block, block_type) THEN Raise(<<"KeyError">>)
        ELSE IF ~HasKey(block[block_type], "rich_text") THEN Raise(<<"KeyError">>)
        ELSE
          LET payload == block[block_type]
              text == NotionMCPServer_rich_text_to_plain_text(payload.rich_text)
          IN  CASE block_type = "paragraph" -> Return(<<text>>)
                [] block_type = "heading_1" -> Return(<<(<<"#", " ">> \o text)>>)
                [] block_type = "heading_2" -> Return(<<(<<"#", "#", " ">> \o text)>>)
                [] block_type = "heading_3" -> Return(<<(<<"#", "#", "#", " ">> \o text)>>)
                [] block_type = "bulleted_list_item" -> Return(<<(<<"-", " ">> \o text)>>)
                [] block_type = "numbered_list_item" -> Return(<<(<<"1", ".", " ">> \o text)>>)
                [] block_type = "to_do" ->
                     IF ~HasKey(payload, "checked") THEN Raise(<<"KeyError">>)
                     ELSE LET checked == IF payload.checked THEN <<"U+2705">> ELSE <<"U+2610">>
                          IN  Return(<<(checked \o <<" ">> \o text)>>)
                [] block_type = "code" ->
                     LET language == Get(payload, "language", <<>>)
                         fence == <<"U+0060", "U+0060", "U+0060">>
                     IN  Return(<<(fence \o language \o <<"\n">> \o text \o <<"\n">> \o fence)>>)

\* _blocks_to_text: lines 436-477, on the client self.notion
RECURSIVE NotionMCPServer_blocks_to_text(_, _)
RECURSIVE NotionMCPServer_decode_loop(_, _, _, _, _, _)
NotionMCPServer_decode_loop(block_list, i, text_parts, self_notion, calls, rendered) ==
    IF i > Len(block_list)
    THEN Return(Join(<<"\n", "\n">>, text_parts)) @@ [calls |-> calls, rendered |-> rendered]
    ELSE
      LET block == block_list[i]
          own == NotionMCPServer_own_text(block)
      IN  IF own.kind = "raise" THEN own @@ [calls |-> calls, rendered |-> rendered]
          ELSE
            LET parts == text_parts \o own.value
                seen == rendered \o own.value
            IN  IF Get(block, "has_children", FALSE) = TRUE
                THEN IF ~HasKey(block, "id")
                     THEN Raise(<<"KeyError">>) @@ [calls |-> calls, rendered |-> seen]
                     ELSE
                       LET children == self_notion.children[block.id]
                           called == Append(calls, [api |-> "blocks.children.list",
                                                    block_id |-> block.id])
                       IN  IF children.kind = "raise"
                           THEN children @@ [calls |-> called, rendered |-> seen]
                           ELSE
                             LET child == NotionMCPServer_blocks_to_text(
                                              children.value.results, self_notion)
                             IN  IF child.kind = "raise"
                                 THEN Raise(child.exc)
                                      @@ [calls |-> called \o child.calls,
                                          rendered |-> seen \o child.rendered]
                                 ELSE NotionMCPServer_decode_loop(block_list, i + 1,
                                        IF Len(child.value) > 0
                                        THEN Append(parts, child.value) ELSE parts,
                                        self_notion, called \o child.calls,
                                        seen \o child.rendered)
                ELSE NotionMCPServer_decode_loop(block_list, i + 1, parts, self_notion,
                                                 calls, seen)

NotionMCPServer_blocks_to_text(block_list, self_notion) ==
    NotionMCPServer_decode_loop(block_list, 1, <<>>, self_notion, <<>>, <<>>)

\* the dict appended by _text_to_blocks for one stripped line: lines 493-532
NotionMCPServer_block_of_line(line) ==
    LET appended(type, content) ==
            [object |-> "block", type |-> type]
            @@ (type :> [rich_text |-> <<[type |-> "text", text |-> [content |-> content]]>>])
    IN  IF StartsWith(line, <<"#", " ">>) THEN appended("heading_1", From(line, 2))
        ELSE IF StartsWith(line, <<"#", "#", " ">>) THEN appended("heading_2", From(line, 3))
        ELSE IF StartsWith(line, <<"#", "#", "#", " ">>)
        THEN appended("heading_3", From(line, 4))
        ELSE IF StartsWith(line, <<"-", " ">>)
        THEN appended("bulleted_list_item", From(line, 2))
        ELSE appended("paragraph", line)

\* the for loop of _text_to_blocks: lines 488-532
RECURSIVE NotionMCPServer_blocks_of_lines(_)
NotionMCPServer_blocks_of_lines(lines) ==
    IF lines = <<>> THEN <<>>
    ELSE LET line == Strip(lines[1])
         IN  IF line = <<>> THEN NotionMCPServer_blocks_of_lines(Tail(lines))
             ELSE <<NotionMCPServer_block_of_line(line)>>
                  \o NotionMCPServer_blocks_of_lines(Tail(lines))

\* _text_to_blocks: lines 483-534
NotionMCPServer_text_to_blocks(t) == NotionMCPServer_blocks_of_lines(Split(t, "\n"))

----------------------------------------------------------------------------
(* Inputs *)

\* The characters text_to_blocks tells apart ("#", "-", blank, newline) and
\* three it does not ("a", "1", ".").
Alphabet == {"#", "-", " ", "\n", "a", "1", "."}

Texts == UNION {[1..n -> Alphabet] : n \in 0..MaxTextLen}

\* a client that is never asked anything
NoClient == [children |-> [id \in {} |-> None]]

\* A rich-text span as the API returns it
Span(t) == [type |-> "text", plain_text |-> t, text |-> [content |-> t]]

\* The payloads of the blocks the API returns: every kind blocks_to_text
\* renders, a paragraph without spans, one with two spans, and a kind it
\* does not render.
Payloads ==
    {<<"paragraph", [rich_text |-> <<Span(<<"a">>)>>]>>,
     <<"paragraph", [rich_text |-> <<>>]>>,
     <<"paragraph", [rich_text |-> <<Span(<<"a">>), Span(<<"b">>)>>]>>,
     <<"heading_1", [rich_text |-> <<Span(<<"a">>)>>]>>,
     <<"heading_2", [rich_text |-> <<Span(<<"a">>)>>]>>,
     <<"heading_3", [rich_text |-> <<Span(<<"a">>)>>]>>,
     <<"bulleted_list_item", [rich_text |-> <<Span(<<"a">>)>>]>>,
     <<"numbered_list_item", [rich_text |-> <<Span(<<"a">>)>>]>>,
     <<"to_do", [rich_text |-> <<Span(<<"a">>)>>, checked |-> TRUE]>>,
     <<"to_do", [rich_text |-> <<Span(<<"a">>)>>, checked |-> FALSE]>>,
     <<"code", [rich_text |-> <<Span(<<"a">>)>>, language |-> <<"p", "y">>]>>,
     <<"code", [rich_text |-> <<Span(<<"a">>)>>, language |-> <<>>]>>,
     <<"divider", [color |-> "default"]>>}

\* A block as the API returns it.  A block id is the path to the block.
ApiBlock(id, payload, has_children) ==
    [object |-> "block", id |-> id, type |-> payload[1], has_children |-> has_children]
    @@ (payload[1] :> payload[2])

APIError == <<"A", "P", "I", "E", "r", "r", "o", "r">>

\* What is below a top-level block: nothing, a fetch that fails, no child,
\* one child, a child whose own fetch fails, a child with a child.
Nestings == {"none", "fails", "empty", "child", "child_fails", "grandchild"}

ChildOf(id, has_children) ==
    ApiBlock(id \o <<"1">>, <<"bulleted_list_item", [rich_text |-> <<Span(<<"c">>)>>]>>,
             has_children)

GrandchildOf(id) ==
    ApiBlock(id \o <<"1", "1">>, <<"paragraph", [rich_text |-> <<Span(<<"d">>)>>]>>, FALSE)

\* the answers of blocks.children.list for the blocks below block id
AnswersBelow(id, nesting) ==
    CASE nesting = "none" -> <<>>
      [] nesting = "fails" -> <<<<id, Raise(APIError)>>>>
      [] nesting = "empty" -> <<<<id, Return([results |-> <<>>])>>>>
      [] nesting = "child" -> <<<<id, Return([results |-> <<ChildOf(id, FALSE)>>])>>>>
      [] nesting = "child_fails" ->
           <<<<id, Return([results |-> <<ChildOf(id, TRUE)>>])>>,
             <<id \o <<"1">>, Raise(APIError)>>>>
      [] nesting = "grandchild" ->
           <<<<id, Return([results |-> <<ChildOf(id, TRUE)>>])>>,
             <<id \o <<"1">>, Return([results |-> <<GrandchildOf(id)>>])>>>>

\* the block list made of the given payloads and nestings
BlockList(payloads, nestings) ==
    [i \in 1..Len(payloads) |-> ApiBlock(<<ToString(i)>>, payloads[i], nestings[i] # "none")]

\* the children answers of the client for that block list
ChildrenAnswers(nestings) ==
    LET pairs == Concat([i \in 1..Len(nestings) |-> AnswersBelow(<<ToString(i)>>, nestings[i])])
    IN  [id \in {pairs[k][1] : k \in 1..Len(pairs)} |->
            (CHOOSE pr \in {pairs[k] : k \in 1..Len(pairs)} : pr[1] = id)[2]]

----------------------------------------------------------------------------
(* SpecDecode: blocks_to_text on every block list of the API.               *)

InitDecode ==
    /\ phase = "input"
    /\ NoPlainText
    /\ NoCore
    /\ NoStartup
    /\ NoScripts
    /\ \E n \in 0..MaxBlocks :
         \E payloads \in [1..n -> Payloads], nestings \in [1..n -> Nestings] :
            /\ in_blocks = BlockList(payloads, nestings)
            /\ notion = [children |-> ChildrenAnswers(nestings)]
    /\ in_text = None
    /\ out_blocks = None
    /\ out_text = None
    /\ in_record = None
    /\ out_title = None
    /\ request = None
    /\ api_calls = <<>>
    /\ response = None

BlocksToText ==
    /\ phase = "input"
    /\ out_text' = blocks_to_text(in_blocks, notion)
    /\ phase' = "decoded"
    /\ UNCHANGED <<plain_vars, startup_vars, script_vars, core_vars>>
    /\ UNCHANGED <<in_text, out_blocks, in_blocks, notion, in_record, out_title,
                   request, api_calls, response>>

NextDecode == BlocksToText

SpecDecode == InitDecode /\ [][NextDecode]_vars

\* The spans of a title: two texts, an empty text, a span without plain_text
\* Spans with a plain text
TitleSpans == {[plain_text |-> <<"A">>], [plain_text |-> <<"B">>]}

\* The title arrays: up to MaxSpans spans with a text, and arrays with a span
\* whose text is empty or that has no plain_text key
TitleArrays ==
    UNION {[1..n -> TitleSpans] : n \in 0..MaxSpans}
    \cup {<<[plain_text |-> <<>>]>>,
          <<[type |-> "mention"]>>,
          <<[type |-> "mention"], [plain_text |-> <<"A">>]>>,
          <<[plain_text |-> <<"A">>], [type |-> "mention"]>>}

\* The values of a properties mapping: without type, of another type,
\* title-typed without a title, title-typed with a title array
PropertyValues ==
    {[id |-> "x"], [type |-> "rich_text", rich_text |-> <<>>], [type |-> "title"]}
    \cup {[type |-> "title", title |-> a] : a \in TitleArrays}

PropertyNames == <<"Name", "Title", "Tags", "Status">>

PropertyItems(values) == [i \in 1..Len(values) |-> <<PropertyNames[i], values[i]>>]

\* The properties of a record: none, or a mapping of up to MaxProps entries
RecordProperties ==
    {Dict0} \cup {[properties |-> PropertyItems(v)] :
                    v \in UNION {[1..n -> PropertyValues] : n \in 0..MaxProps}}

\* The top-level title of a record: none, or a title array
RecordTitles == {Dict0} \cup {[title |-> a] : a \in TitleArrays}

\* The records, answers and arguments of the tool invocations

PageId == <<"page-1">>

DatabaseId == <<"db-1">>

TitleOnly(spans) == PropertyItems(<<[type |-> "title", title |-> spans]>>)

ApiPage(properties) ==
    [object |-> "page", id |-> PageId, url |-> <<"https://notion.so/page-1">>,
     created_time |-> <<"2023-01-01T00:00:00.000Z">>,
     last_edited_time |-> <<"2023-01-02T00:00:00.000Z">>,
     properties |-> properties]

ApiDatabase ==
    [object |-> "database", id |-> DatabaseId, url |-> <<"https://notion.so/db-1">>,
     title |-> <<Span(<<"B">>)>>]

ApiUser == [object |-> "user", id |-> <<"user-1">>, url |-> <<"https://notion.so/user-1">>]

Pages ==
    {ApiPage(TitleOnly(<<Span(<<"A">>)>>)),
     ApiPage(PropertyItems(<<[type |-> "rich_text", rich_text |-> <<>>]>>))}

ListsOf(S, n) == UNION {[1..k -> S] : k \in 0..n}

Answers(values) == {Raise(APIError)} \cup {Return(v) : v \in values}

SearchAnswers ==
    Answers({[results |-> r] : r \in ListsOf(Pages \cup {ApiDatabase, ApiUser}, MaxResults)})

QueryAnswers == Answers({[results |-> r] : r \in ListsOf(Pages, MaxResults)})

RetrieveAnswers == Answers(Pages)

WriteAnswers ==
    Answers({[id |-> <<"new-page-id">>, url |-> <<"https://notion.so/new-page">>]})

\* the payloads of the blocks of a page
PagePayloads ==
    {<<"paragraph", [rich_text |-> <<Span(<<"a">>)>>]>>,
     <<"paragraph", [rich_text |-> <<>>]>>,
     <<"divider", [color |-> "default"]>>}

\* the answers of blocks.children.list for a page and the blocks below it
PageChildrenAnswers ==
    {PageId :> Raise(APIError)}
    \cup {(PageId :> Return([results |-> BlockList(payloads, nestings)]))
             @@ ChildrenAnswers(nestings) :
          <<payloads, nestings>> \in
             UNION {[1..n -> PagePayloads] \X [1..n -> Nestings] : n \in 0..MaxBlocks}}

\* a client whose every call fails
FailingClient ==
    [search |-> Raise(APIError), retrieve |-> Raise(APIError),
     children |-> (PageId :> Raise(APIError)), create |-> Raise(APIError),
     update |-> Raise(APIError), append |-> Raise(APIError), query |-> Raise(APIError)]

Contents == {<<>>, <<" ", "\n">>, <<"#", " ", "a", "\n", "-", " ", "b">>}

Optional(key, values) == {Dict0} \cup {(key :> v) : v \in values}

\* the invocations: tool, arguments as NotionService takes them, client
Invocations ==
    {<<"search_notion", [query |-> <<"q">>] @@ f, [FailingClient EXCEPT !.search = a]>> :
        f \in Optional("filter_type", {<<>>, <<"page">>}), a \in SearchAnswers}
    \cup {<<"get_page", [page_id |-> PageId], [FailingClient EXCEPT !.retrieve = a]>> :
        a \in RetrieveAnswers}
    \cup {<<"get_page_content", [page_id |-> PageId],
            [FailingClient EXCEPT !.retrieve = a, !.children = c]>> :
        a \in RetrieveAnswers, c \in PageChildrenAnswers}
    \cup {<<"create_page", [parent_id |-> parent, title |-> <<"T">>] @@ c,
            [FailingClient EXCEPT !.create = a, !.append = b]>> :
        parent \in {PageId, DatabaseId}, c \in Optional("content", Contents),
        a \in WriteAnswers, b \in WriteAnswers}
    \cup {<<"update_page", [page_id |-> PageId] @@ t @@ c,
            [FailingClient EXCEPT !.update = a, !.append = b]>> :
        t \in Optional("title", {<<>>, <<"T">>}), c \in Optional("content", Contents),
        a \in WriteAnswers, b \in WriteAnswers}
    \cup {<<"query_database", [database_id |-> DatabaseId] @@ f @@ o,
            [FailingClient EXCEPT !.query = a]>> :
        f \in Optional("filter_condition", {Dict0, [property |-> "Status"]}),
        o \in Optional("sorts", {<<>>, <<[property |-> "Name"]>>}), a \in QueryAnswers}
    \cup {<<"create_database_entry",
            [database_id |-> DatabaseId, properties |-> TitleProperty(<<"T">>)],
            [FailingClient EXCEPT !.create = a]>> :
        a \in WriteAnswers}

\* the arguments as the tool schema of NotionMCPServer names them
ServerArguments(arguments) ==
    [k \in DOMAIN arguments \ {"filter_condition"} |-> arguments[k]]
    @@ (IF HasKey(arguments, "filter_condition")
        THEN [filter |-> arguments.filter_condition] ELSE Dict0)

\* Requests to NotionMCPServer.call_tool: the invocations, an invocation
\* without its arguments, and a tool that does not exist
ServerRequests ==
    {<<i[1], ServerArguments(i[2]), i[3]>> : i \in Invocations}
    \cup {<<name, Dict0, FailingClient>> :
            name \in {"search_notion", "get_page", "get_page_content", "create_page",
                      "update_page", "query_database", "create_database_entry",
                      "delete_page"}}

----------------------------------------------------------------------------
(* SpecEncode: text_to_blocks on every text, then blocks_to_text on the     *)
(* list it returned.                                                        *)

InitEncode ==
    /\ phase = "input"
    /\ NoPlainText
    /\ NoCore
    /\ NoStartup
    /\ NoScripts
    /\ in_text \in Texts
    /\ out_blocks = None
    /\ in_blocks = None
    /\ notion = NoClient
    /\ out_text = None
    /\ in_record = None
    /\ out_title = None
    /\ request = None
    /\ api_calls = <<>>
    /\ response = None

TextToBlocks ==
    /\ phase = "input"
    /\ out_blocks' = text_to_blocks(in_text)
    /\ phase' = "encoded"
    /\ UNCHANGED <<plain_vars, startup_vars, script_vars, core_vars>>
    /\ UNCHANGED <<in_text, in_blocks, notion, out_text, in_record, out_title,
                   request, api_calls, response>>

\* blocks_to_text(text_to_blocks(text), notion_client)
BlocksToTextOfEncoded ==
    /\ phase = "encoded"
    /\ in_blocks' = out_blocks
    /\ out_text' = blocks_to_text(out_blocks, notion)
    /\ phase' = "decoded"
    /\ UNCHANGED <<plain_vars, startup_vars, script_vars, core_vars>>
    /\ UNCHANGED <<in_text, out_blocks, notion, in_record, out_title, request,
                   api_calls, response>>

NextEncode == TextToBlocks \/ BlocksToTextOfEncoded

SpecEncode == InitEncode /\ [][NextEncode]_vars

----------------------------------------------------------------------------
(* What the specification says of a markdown text, stated without the       *)
(* operators of the model.                                                  *)

NewlinesOf(t) == {i \in 1..Len(t) : t[i] = "\n"}

\* the k-th newline of t
NthNewline(t, k) ==
    CHOOSE p \in NewlinesOf(t) : Cardinality({q \in NewlinesOf(t) : q < p}) = k - 1

LineCount(t) == Cardinality(NewlinesOf(t)) + 1

LineOf(t, k) ==
    LET first == IF k = 1 THEN 1 ELSE NthNewline(t, k - 1) + 1
        last == IF k = LineCount(t) THEN Len(t) ELSE NthNewline(t, k) - 1
    IN  [j \in 1..(last - first + 1) |-> t[first + j - 1]]

RECURSIVE Trimmed(_)
Trimmed(l) ==
    IF Len(l) = 0 THEN <<>>
    ELSE IF l[1] \in Whitespace THEN Trimmed([j \in 1..(Len(l) - 1) |-> l[j + 1]])
    ELSE IF l[Len(l)] \in Whitespace THEN Trimmed([j \in 1..(Len(l) - 1) |-> l[j]])
    ELSE l

IsNonBlank(l) == Len(l) > 0

\* the trimmed lines of t that are not blank, in order
NonBlankLines(t) ==
    SelectSeq([k \in 1..LineCount(t) |-> Trimmed(LineOf(t, k))], IsNonBlank)

HasPrefix(l, p) == Len(l) >= Len(p) /\ \A j \in 1..Len(p) : l[j] = p[j]

Markers ==
    {[prefix |-> <<"#", "#", "#", " ">>, type |-> "heading_3"],
     [prefix |-> <<"#", "#", " ">>, type |-> "heading_2"],
     [prefix |-> <<"#", " ">>, type |-> "heading_1"],
     [prefix |-> <<"-", " ">>, type |-> "bulleted_list_item"]}

MatchingMarkers(l) == {m \in Markers : HasPrefix(l, m.prefix)}

\* the marker with the longest matching prefix; a paragraph if none matches
MarkerOf(l) ==
    IF MatchingMarkers(l) = {} THEN [prefix |-> <<>>, type |-> "paragraph"]
    ELSE CHOOSE m \in MatchingMarkers(l) :
             \A o \in MatchingMarkers(l) : Len(o.prefix) <= Len(m.prefix)

AfterPrefix(l, n) == [j \in 1..(Len(l) - n) |-> l[n + j]]

\* the text of the only span of a block that text_to_blocks built
ContentOf(b) == b[b.type].rich_text[1].text.content

----------------------------------------------------------------------------
(* Properties of SpecEncode *)

\* C1: for every markdown text, blocks_to_text applied directly to the list
\* returned by text_to_blocks returns the trimmed non-blank lines, each with
\* its prefix and its text, joined by two newlines.
C1_RoundTripReproducesLines ==
    phase = "decoded" =>
        /\ out_text.kind = "return"
        /\ out_text.value = Join(Separator, NonBlankLines(in_text))

\* C2: text_to_blocks classifies every trimmed non-blank line by its longest
\* matching prefix ("### " heading_3, "## " heading_2, "# " heading_1, "- "
\* bulleted_list_item, anything else paragraph with the whole line); a line
\* starting with "## " or "### " is never heading_1; every block holds
\* exactly one span, carrying the text after the prefix.
C2_ClassifiedByLongestPrefix ==
    phase = "encoded" =>
        \A i \in 1..Len(NonBlankLines(in_text)) :
            LET l == NonBlankLines(in_text)[i]
                m == MarkerOf(l)
            IN  /\ i \in DOMAIN out_blocks
                /\ out_blocks[i].type = m.type
                /\ HasKey(out_blocks[i], m.type)
                /\ Len(out_blocks[i][m.type].rich_text) = 1
                /\ ContentOf(out_blocks[i]) = AfterPrefix(l, Len(m.prefix))
                /\ (HasPrefix(l, <<"#", "#", " ">>) \/ HasPrefix(l, <<"#", "#", "#", " ">>))
                       => out_blocks[i].type # "heading_1"

\* a heading_2 line, a heading_3 line and a numbered-list line were classified
C2_Witness ==
    /\ phase = "encoded"
    /\ in_text \in {<<"#", "#", " ", "a">>, <<"#", "#", "#", " ", "a">>, <<"1", ".", " ", "a">>}
    /\ out_blocks[1].type \in {"heading_2", "heading_3", "paragraph"}

\* C3: text_to_blocks emits exactly one block for each line that is not empty
\* after trimming, in line order, and none for a blank line: as many blocks as
\* non-blank lines, the i-th block holding the text of the i-th non-blank line
\* (the line itself, or the line without one of the four prefixes).
C3_OneBlockPerNonBlankLine ==
    phase = "encoded" =>
        /\ Len(out_blocks) = Len(NonBlankLines(in_text))
        /\ \A i \in 1..Len(out_blocks) :
               LET l == NonBlankLines(in_text)[i]
               IN  \/ ContentOf(out_blocks[i]) = l
                   \/ \E m \in Markers : l = m.prefix \o ContentOf(out_blocks[i])

\* a blank line between two non-blank lines produced no block
C3_Witness ==
    /\ phase = "encoded"
    /\ in_text = <<"a", "\n", " ", "\n", "1">>
    /\ Len(out_blocks) = 2

\* the lines that are a prefix marker without its text
BareMarkers == {<<"#">>, <<"#", "#">>, <<"#", "#", "#">>, <<"-">>}

\* the block holds one span whose text is not empty and does not end in
\* whitespace
HasText(b) ==
    /\ Len(b[b.type].rich_text) = 1
    /\ Len(ContentOf(b)) > 0
    /\ ContentOf(b)[Len(ContentOf(b))] \notin Whitespace

\* C27: every block emitted by text_to_blocks carries a non-empty text that
\* does not end in whitespace; a trimmed line that is only a prefix marker
\* ("#", "##", "###", "-") becomes a paragraph holding the marker, never a
\* heading or bullet with empty text; so no block list sent to
\* blocks.children.append holds a block with empty text.
C27_NoEmptyBlock ==
    /\ phase \in {"encoded", "decoded"} =>
          /\ \A i \in 1..Len(out_blocks) : HasText(out_blocks[i])
          /\ \A i \in 1..Len(NonBlankLines(in_text)) :
                NonBlankLines(in_text)[i] \in BareMarkers =>
                    /\ out_blocks[i].type = "paragraph"
                    /\ ContentOf(out_blocks[i]) = NonBlankLines(in_text)[i]
    /\ \A k \in 1..Len(api_calls) :
          api_calls[k].api = "blocks.children.append" =>
              /\ Len(api_calls[k].children) > 0
              /\ \A i \in 1..Len(api_calls[k].children) : HasText(api_calls[k].children[i])

\* "##" followed by a blank and "-" followed by a blank were encoded as two
\* paragraphs
C27_Witness ==
    /\ phase = "encoded"
    /\ in_text = <<"#", "#", " ", "\n", "-">>
    /\ Len(out_blocks) = 2
    /\ out_blocks[1].type = "paragraph"
    /\ ContentOf(out_blocks[1]) = <<"#", "#">>
    /\ out_blocks[2].type = "paragraph"
    /\ ContentOf(out_blocks[2]) = <<"-">>

----------------------------------------------------------------------------
(* Properties of SpecDecode *)

\* the plain texts of the spans, first to last
RECURSIVE FlatText(_)
FlatText(spans) ==
    IF Len(spans) = 0 THEN <<>>
    ELSE FlatText([j \in 1..(Len(spans) - 1) |-> spans[j]]) \o spans[Len(spans)].plain_text

\* the segments with two newlines between neighbours
RECURSIVE TwoNewlinesBetween(_)
TwoNewlinesBetween(segments) ==
    IF Len(segments) = 0 THEN <<>>
    ELSE IF Len(segments) = 1 THEN segments[1]
    ELSE TwoNewlinesBetween([j \in 1..(Len(segments) - 1) |-> segments[j]])
         \o <<"\n", "\n">> \o segments[Len(segments)]

ThreeBackticks == <<"U+0060", "U+0060", "U+0060">>

\* the rendering the specification gives for a block of its kind
RenderingOf(b) ==
    LET t == FlatText(b[b.type].rich_text)
    IN  CASE b.type = "paragraph" -> t
          [] b.type = "heading_1" -> <<"#", " ">> \o t
          [] b.type = "heading_2" -> <<"#", "#", " ">> \o t
          [] b.type = "heading_3" -> <<"#", "#", "#", " ">> \o t
          [] b.type = "bulleted_list_item" -> <<"-", " ">> \o t
          [] b.type = "to_do" /\ b.to_do.checked -> <<"U+2705", " ">> \o t
          [] b.type = "to_do" /\ ~b.to_do.checked -> <<"U+2610", " ">> \o t
          [] b.type = "code" ->
               ThreeBackticks \o b.code.language \o <<"\n">> \o t \o <<"\n">> \o ThreeBackticks

KindsOfC4 ==
    {"paragraph", "heading_1", "heading_2", "heading_3", "bulleted_list_item",
     "to_do", "code"}

NoChildren(block_list) == \A i \in 1..Len(block_list) : ~block_list[i].has_children

\* C4: a sequence of paragraph, heading, bullet, to_do and code blocks without
\* children decodes to the renderings of its blocks (no prefix, "# ", "## ",
\* "### ", "- ", the checked or unchecked mark, the fenced code with its
\* language), in block order, with exactly two newlines between neighbours.
C4_RenderedByKind ==
    (/\ phase = "decoded"
     /\ NoChildren(in_blocks)
     /\ \A i \in 1..Len(in_blocks) : in_blocks[i].type \in KindsOfC4)
    => /\ out_text.kind = "return"
       /\ out_text.value =
              TwoNewlinesBetween([i \in 1..Len(in_blocks) |-> RenderingOf(in_blocks[i])])

\* a checked to_do followed by a code block was decoded
C4_Witness ==
    /\ phase = "decoded"
    /\ Len(in_blocks) = 2
    /\ NoChildren(in_blocks)
    /\ in_blocks[1].type = "to_do"
    /\ in_blocks[1].to_do.checked
    /\ in_blocks[2].type = "code"
    /\ out_text.kind = "return"

OccursAt(t, p, i) == i + Len(p) - 1 <= Len(t) /\ \A j \in 1..Len(p) : t[i + j - 1] = p[j]

Occurs(t, p) == \E i \in 1..Len(t) : OccursAt(t, p, i)

\* C5: blocks_to_text joins only non-empty segments: its output never starts
\* or ends with the two-newline separator and never has two separators in a
\* row.
C5_OnlyNonEmptySegmentsJoined ==
    (phase = "decoded" /\ out_text.kind = "return") =>
        /\ ~OccursAt(out_text.value, <<"\n", "\n">>, 1)
        /\ ~OccursAt(out_text.value, <<"\n", "\n">>, Len(out_text.value) - 1)
        /\ ~Occurs(out_text.value, <<"\n", "\n", "\n", "\n">>)

\* the rendering of a block, a numbered item with the literal "1. "
RenderingWithOne(b) ==
    IF b.type = "numbered_list_item"
    THEN <<"1", ".", " ">> \o FlatText(b.numbered_list_item.rich_text)
    ELSE RenderingOf(b)

NumberedItems(block_list) ==
    {i \in 1..Len(block_list) : block_list[i].type = "numbered_list_item"}

\* C13: every numbered_list_item block decodes with the literal prefix "1. "
\* whatever its position and however many numbered items precede it: a
\* sequence of rendered kinds without children decodes to the renderings of
\* its blocks, each numbered item as "1. " and its text.
C13_NumberedItemsAreOne ==
    (/\ phase = "decoded"
     /\ NoChildren(in_blocks)
     /\ NumberedItems(in_blocks) # {}
     /\ \A i \in 1..Len(in_blocks) :
           in_blocks[i].type \in KindsOfC4 \cup {"numbered_list_item"})
    => /\ out_text.kind = "return"
       /\ Len(out_text.rendered) = Len(in_blocks)
       /\ \A i \in NumberedItems(in_blocks) :
             OccursAt(out_text.rendered[i], <<"1", ".", " ">>, 1)
       /\ out_text.value =
              TwoNewlinesBetween([i \in 1..Len(in_blocks) |-> RenderingWithOne(in_blocks[i])])

\* the last two blocks of the list are numbered items
C13_Witness ==
    /\ phase = "decoded"
    /\ NoChildren(in_blocks)
    /\ Len(in_blocks) >= 2
    /\ in_blocks[Len(in_blocks)].type = "numbered_list_item"
    /\ in_blocks[Len(in_blocks) - 1].type = "numbered_list_item"
    /\ out_text.kind = "return"
    /\ OccursAt(out_text.value, <<"1", ".", " ", "a", "\n", "\n", "1", ".", " ", "a">>,
                Len(out_text.value) - 9)

\* the children fetch of block b answers with an empty list
HasNoChild(b) ==
    /\ b.has_children
    /\ b.id \in DOMAIN notion.children
    /\ notion.children[b.id].kind = "return"
    /\ Len(notion.children[b.id].value.results) = 0

\* the blocks with has_children false where the fetch would find no child
WithoutEmptyFetches(block_list) ==
    [i \in 1..Len(block_list) |->
        IF HasNoChild(block_list[i]) THEN [block_list[i] EXCEPT !.has_children = FALSE]
        ELSE block_list[i]]

\* C14: a block with has_children true whose children fetch returns an empty
\* list contributes only its own rendered line: the output is that of the
\* same blocks with has_children false, and when no other block has
\* children it is the renderings of the blocks joined by two newlines, with
\* no extra segment or separator.
C14_EmptyChildrenAddNothing ==
    (/\ phase = "decoded"
     /\ \E i \in 1..Len(in_blocks) : HasNoChild(in_blocks[i]))
    => LET plain == blocks_to_text(WithoutEmptyFetches(in_blocks), notion)
       IN  /\ out_text.kind = plain.kind
           /\ out_text.kind = "return" => out_text.value = plain.value
           /\ (/\ NoChildren(WithoutEmptyFetches(in_blocks))
               /\ \A i \in 1..Len(in_blocks) :
                     in_blocks[i].type \in KindsOfC4 \cup {"numbered_list_item"})
              => /\ out_text.kind = "return"
                 /\ out_text.value =
                      TwoNewlinesBetween([i \in 1..Len(in_blocks) |->
                                             RenderingWithOne(in_blocks[i])])

\* a heading whose fetch finds no child, as the last block of two
C14_Witness ==
    /\ phase = "decoded"
    /\ Len(in_blocks) = 2
    /\ ~in_blocks[1].has_children
    /\ in_blocks[2].type = "heading_1"
    /\ HasNoChild(in_blocks[2])
    /\ out_text.kind = "return"
    /\ Len(out_text.calls) = 1
    /\ OccursAt(out_text.value, <<"\n", "\n", "#", " ", "a">>, Len(out_text.value) - 4)

\* the kinds blocks_to_text gives a rendering
KindsRendered == KindsOfC4 \cup {"numbered_list_item"}

\* every children fetch at or below the blocks of the list answers
RECURSIVE AllFetchesAnswer(_)
AllFetchesAnswer(block_list) ==
    \A i \in 1..Len(block_list) :
        block_list[i].has_children =>
            /\ block_list[i].id \in DOMAIN notion.children
            /\ notion.children[block_list[i].id].kind = "return"
            /\ AllFetchesAnswer(notion.children[block_list[i].id].value.results)

\* The segments of a block list whose fetches all answer, in order: for each
\* block its rendering when its kind has one, then the text of its children
\* when that text is not empty.
RECURSIVE SegmentsOf(_)
SegmentsOf(block_list) ==
    IF Len(block_list) = 0 THEN <<>>
    ELSE LET b == block_list[Len(block_list)]
             own == IF b.type \in KindsRendered THEN <<RenderingWithOne(b)>> ELSE <<>>
             below == IF b.has_children
                      THEN TwoNewlinesBetween(
                               SegmentsOf(notion.children[b.id].value.results))
                      ELSE <<>>
         IN  SegmentsOf([j \in 1..(Len(block_list) - 1) |-> block_list[j]])
             \o own \o (IF Len(below) > 0 THEN <<below>> ELSE <<>>)

\* the blocks of the list of a kind without a rendering
Unrecognized(block_list) ==
    {i \in 1..Len(block_list) : block_list[i].type \notin KindsRendered}

\* the number of blocks of a rendered kind at or below the blocks of the list
RECURSIVE RenderedCount(_)
RenderedCount(block_list) ==
    IF Len(block_list) = 0 THEN 0
    ELSE LET b == block_list[Len(block_list)]
         IN  RenderedCount([j \in 1..(Len(block_list) - 1) |-> block_list[j]])
             + (IF b.type \in KindsRendered THEN 1 ELSE 0)
             + (IF b.has_children
                THEN RenderedCount(notion.children[b.id].value.results) ELSE 0)

\* C21: a block of an unrecognized kind contributes no text of its own and
\* raises no error: a decode of a list holding one fails only with the error
\* of a failed fetch.  When its has_children flag is true its children are
\* still fetched, and when every fetch answers the output is the segments of
\* the list joined by two newlines, the text of the children standing in the
\* position of the block and no own text rendered for it.
C21_UnrecognizedKindOnlyChildren ==
    (phase = "decoded" /\ Unrecognized(in_blocks) # {})
    => /\ out_text.kind = "raise" => out_text.exc = APIError
       /\ AllFetchesAnswer(in_blocks) =>
            /\ out_text.kind = "return"
            /\ out_text.value = TwoNewlinesBetween(SegmentsOf(in_blocks))
            /\ Len(out_text.rendered) = RenderedCount(in_blocks)
            /\ \A i \in Unrecognized(in_blocks) :
                  in_blocks[i].has_children =>
                      \E k \in 1..Len(out_text.calls) :
                          out_text.calls[k] = ListCall(in_blocks[i].id)

\* a divider with a child and a grandchild, between nothing and a paragraph:
\* the text of its children is the first segment
C21_Witness ==
    /\ phase = "decoded"
    /\ Len(in_blocks) = 2
    /\ in_blocks[1].type = "divider"
    /\ in_blocks[1].has_children
    /\ in_blocks[2].type = "paragraph"
    /\ ~in_blocks[2].has_children
    /\ out_text.kind = "return"
    /\ out_text.value = <<"-", " ", "c", "\n", "\n", "d", "\n", "\n", "a">>

\* the children a fetch of block b finds: none when the fetch fails
FetchedBelow(b) ==
    IF notion.children[b.id].kind = "return"
    THEN notion.children[b.id].value.results ELSE <<>>

\* The list-children calls of the blocks with has_children true at or below
\* the blocks of the list, in depth-first pre-order: a block before its
\* children, its children before its next sibling.
RECURSIVE FetchesOf(_)
FetchesOf(block_list) ==
    IF Len(block_list) = 0 THEN <<>>
    ELSE LET b == block_list[Len(block_list)]
         IN  FetchesOf([j \in 1..(Len(block_list) - 1) |-> block_list[j]])
             \o (IF b.has_children
                 THEN <<ListCall(b.id)>> \o FetchesOf(FetchedBelow(b)) ELSE <<>>)

\* the calls of the sequence whose fetch fails
FailingCalls(calls) ==
    {k \in 1..Len(calls) : notion.children[calls[k].block_id].kind = "raise"}

\* C22 as stated: blocks_to_text issues exactly one list-children call for
\* each block of the tree whose has_children flag is true and none for any
\* other block, in depth-first pre-order, whatever the fetches answer.
C22_OneCallPerParent ==
    phase = "decoded" => out_text.calls = FetchesOf(in_blocks)

\* C22, amended: a decode whose fetches all answer issues exactly the
\* list-children calls of the blocks with has_children true, one each, in
\* depth-first pre-order, and its output has the text of a block's children
\* right after the block's own segment and before the segment of the next
\* sibling.  A decode with a failing fetch issues the calls of that order up
\* to the first failing one and no call after it.
C22_OneCallPerParentUntilFailure ==
    phase = "decoded" =>
        LET order == FetchesOf(in_blocks)
            failing == FailingCalls(order)
        IN  /\ \A k, l \in 1..Len(out_text.calls) :
                  out_text.calls[k] = out_text.calls[l] => k = l
            /\ failing = {} =>
                  /\ AllFetchesAnswer(in_blocks)
                  /\ out_text.kind = "return"
                  /\ out_text.calls = order
                  /\ out_text.value = TwoNewlinesBetween(SegmentsOf(in_blocks))
            /\ failing # {} =>
                  /\ out_text.kind = "raise"
                  /\ out_text.calls = SubSeq(order, 1, MinOf(failing))

\* two blocks with children, the first with a grandchild: three calls, the
\* grandchild's before the second block's
C22_Witness ==
    /\ phase = "decoded"
    /\ Len(in_blocks) = 2
    /\ in_blocks[1].type = "paragraph"
    /\ in_blocks[2].type = "heading_1"
    /\ out_text.kind = "return"
    /\ out_text.calls = <<ListCall(<<"1">>), ListCall(<<"1", "1">>), ListCall(<<"2">>)>>
    /\ out_text.value = <<"a", "\n", "\n", "-", " ", "c", "\n", "\n", "d", "\n", "\n",
                          "#", " ", "a", "\n", "\n", "-", " ", "c">>

----------------------------------------------------------------------------
(* SpecTitle: extract_title on every record.                                *)

InitTitle ==
    /\ phase = "input"
    /\ NoPlainText
    /\ NoCore
    /\ NoStartup
    /\ NoScripts
    /\ \E p \in RecordProperties, t \in RecordTitles : in_record = p @@ t
    /\ in_text = None
    /\ out_blocks = None
    /\ in_blocks = None
    /\ notion = NoClient
    /\ out_text = None
    /\ out_title = None
    /\ request = None
    /\ api_calls = <<>>
    /\ response = None

ExtractTitle ==
    /\ phase = "input"
    /\ out_title' = extract_title(in_record)
    /\ phase' = "titled"
    /\ UNCHANGED <<plain_vars, startup_vars, script_vars, core_vars>>
    /\ UNCHANGED <<in_text, out_blocks, in_blocks, notion, out_text, in_record,
                   request, api_calls, response>>

NextTitle == ExtractTitle

SpecTitle == InitTitle /\ [][NextTitle]_vars

----------------------------------------------------------------------------
(* Properties of SpecTitle *)

\* the plain text of a span, empty when the span has none
PlainTextOf(span) == IF "plain_text" \in DOMAIN span THEN span.plain_text ELSE <<>>

\* the plain texts of the spans, first to last
RECURSIVE PlainTexts(_)
PlainTexts(spans) ==
    IF Len(spans) = 0 THEN <<>>
    ELSE PlainTexts([j \in 1..(Len(spans) - 1) |-> spans[j]]) \o PlainTextOf(spans[Len(spans)])

\* the positions of the title-typed properties that hold spans
TitledProperties(r) ==
    IF "properties" \notin DOMAIN r THEN {}
    ELSE {i \in 1..Len(r.properties) :
            LET v == r.properties[i][2]
            IN  /\ "type" \in DOMAIN v
                /\ v.type = "title"
                /\ "title" \in DOMAIN v
                /\ Len(v.title) > 0}

HasTopLevelTitle(r) == "title" \in DOMAIN r /\ Len(r.title) > 0

Untitled == <<"(", "u", "n", "t", "i", "t", "l", "e", "d", ")">>

\* C9 as stated: a record with neither a title-typed property holding a
\* title nor a top-level title yields the sentinel "(untitled)".
C9_SentinelIsUntitled ==
    (phase = "titled" /\ TitledProperties(in_record) = {} /\ ~HasTopLevelTitle(in_record))
    => out_title = Untitled

\* C9 amended: a record with neither a title-typed property holding a title
\* nor a top-level title yields the fixed sentinel of the code, the Korean
\* string U+C81C U+BAA9 U+0020 U+C5C6 U+C74C ("no title").
C9_SentinelIsFixed ==
    (phase = "titled" /\ TitledProperties(in_record) = {} /\ ~HasTopLevelTitle(in_record))
    => out_title = <<"U+C81C", "U+BAA9", " ", "U+C5C6", "U+C74C">>

\* a record whose properties hold no title and whose top-level title is
\* empty was given to extract_title
C9_Witness ==
    /\ phase = "titled"
    /\ "properties" \in DOMAIN in_record
    /\ Len(in_record.properties) = 2
    /\ TitledProperties(in_record) = {}
    /\ "title" \in DOMAIN in_record
    /\ ~HasTopLevelTitle(in_record)
    /\ Len(out_title) = 5

\* C10: extract_title tries the page path first: with a title-typed property
\* holding spans it returns the plain texts of the first such property
\* concatenated in order, whether or not a top-level title is present; only
\* without one does it return the concatenated top-level title.
C10_PagePathFirst ==
    phase = "titled" =>
        LET titled == TitledProperties(in_record)
        IN  IF titled # {}
            THEN \E i \in titled :
                    /\ \A j \in titled : i <= j
                    /\ out_title = PlainTexts(in_record.properties[i][2].title)
            ELSE HasTopLevelTitle(in_record) => out_title = PlainTexts(in_record.title)

\* a record with a title "AB" in its properties and another top-level title
C10_Witness ==
    /\ phase = "titled"
    /\ TitledProperties(in_record) # {}
    /\ HasTopLevelTitle(in_record)
    /\ out_title = <<"A", "B">>
    /\ PlainTexts(in_record.title) = <<"B", "A">>

\* the title arrays of the title-typed properties of r, in order
RECURSIVE PropertyTitles(_)
PropertyTitles(items) ==
    IF Len(items) = 0 THEN <<>>
    ELSE LET v == items[Len(items)][2]
             before == PropertyTitles([j \in 1..(Len(items) - 1) |-> items[j]])
         IN  IF "type" \in DOMAIN v /\ v.type = "title" /\ "title" \in DOMAIN v
             THEN Append(before, v.title) ELSE before

\* the concatenations the specification tries, in order: the title-typed
\* properties, then the top-level title
TitleCandidates(r) ==
    (IF "properties" \in DOMAIN r
     THEN [i \in 1..Len(PropertyTitles(r.properties)) |->
              PlainTexts(PropertyTitles(r.properties)[i])]
     ELSE <<>>)
    \o (IF "title" \in DOMAIN r THEN <<PlainTexts(r.title)>> ELSE <<>>)

IsNonEmptyText(t) == Len(t) > 0

\* C11: extract_title never returns the empty string: it returns the first
\* concatenation, of a title-typed property and then of the top-level title,
\* that is not empty, and the sentinel when there is none.
C11_NeverEmpty ==
    phase = "titled" =>
        /\ Len(out_title) > 0
        /\ LET nonempty == SelectSeq(TitleCandidates(in_record), IsNonEmptyText)
           IN  IF Len(nonempty) > 0 THEN out_title = nonempty[1]
               ELSE out_title = <<"U+C81C", "U+BAA9", " ", "U+C5C6", "U+C74C">>

----------------------------------------------------------------------------
(* SpecPlainText: rich_text_to_plain_text on two span sequences and on      *)
(* their concatenation.                                                     *)

\* Spans with a text, with an empty text and without the plain_text key
RichTextSpans ==
    {[type |-> "text", plain_text |-> <<"A">>],
     [type |-> "text", plain_text |-> <<"B">>],
     [type |-> "text", plain_text |-> <<>>],
     [type |-> "mention"]}

RichTexts == UNION {[1..n -> RichTextSpans] : n \in 0..MaxSpans}

InitPlainText ==
    /\ phase = "input"
    /\ \E a \in RichTexts, b \in RichTexts : in_rich_text = [a |-> a, b |-> b]
    /\ out_plain_text = None
    /\ NoStartup
    /\ NoCore
    /\ NoScripts
    /\ in_text = None
    /\ out_blocks = None
    /\ in_blocks = None
    /\ notion = NoClient
    /\ out_text = None
    /\ in_record = None
    /\ out_title = None
    /\ request = None
    /\ api_calls = <<>>
    /\ response = None

RichTextToPlainText ==
    /\ phase = "input"
    /\ out_plain_text' =
          [a |-> rich_text_to_plain_text(in_rich_text.a),
           b |-> rich_text_to_plain_text(in_rich_text.b),
           ab |-> rich_text_to_plain_text(in_rich_text.a \o in_rich_text.b)]
    /\ phase' = "flattened"
    /\ UNCHANGED <<in_rich_text, startup_vars, script_vars, core_vars>>
    /\ UNCHANGED <<in_text, out_blocks, in_blocks, notion, out_text, in_record,
                   out_title, request, api_calls, response>>

NextPlainText == RichTextToPlainText

SpecPlainText == InitPlainText /\ [][NextPlainText]_vars

----------------------------------------------------------------------------
(* Properties of SpecPlainText *)

\* C12: rich_text_to_plain_text returns the plain texts of the spans
\* concatenated in sequence order, a span without plain_text counting as the
\* empty string; it returns the empty string for the empty sequence; and
\* the result for a followed by b is the result for a followed by the result
\* for b.
C12_ConcatenatesInOrder ==
    phase = "flattened" =>
        /\ out_plain_text.a = PlainTexts(in_rich_text.a)
        /\ out_plain_text.b = PlainTexts(in_rich_text.b)
        /\ (Len(in_rich_text.a) = 0 => Len(out_plain_text.a) = 0)
        /\ out_plain_text.ab = out_plain_text.a \o out_plain_text.b

\* a sequence that starts with a span without plain_text, followed by another
C12_Witness ==
    /\ phase = "flattened"
    /\ Len(in_rich_text.a) = 2
    /\ "plain_text" \notin DOMAIN in_rich_text.a[1]
    /\ Len(in_rich_text.b) = 1
    /\ out_plain_text.a = <<"A">>
    /\ out_plain_text.ab = <<"A", "B">>

----------------------------------------------------------------------------
(* youtube_script_service.py: YouTubeScriptService.  SpecScripts: calls of  *)
(* create_script_file as the clock advances.                                *)

MaxKeywordLen == 2

MaxCalls == 3

MaxTicks == 2

\* the clock ticks twice a second; datetime.now() reads it
TicksPerSecond == 2

\* invalid_chars = '<>:"/\\|?*': line 92
InvalidChars == {"<", ">", ":", "\"", "/", "\\", "|", "?", "*"}

\* s[:n]
Take(str, n) == [j \in 1..MinOf({n, Len(str)}) |-> str[j]]

\* _sanitize_filename: lines 89-100
sanitize_filename(keyword) ==
    LET replaced == [j \in 1..Len(keyword) |->
                        IF keyword[j] \in InvalidChars \cup {" "} THEN "_" ELSE keyword[j]]
    IN  Take(Strip(replaced), 50)

TwoDigits(n) == <<DigitChars[(n \div 10) + 1], DigitChars[(n % 10) + 1]>>

\* datetime.now().strftime("%Y%m%d_%H%M%S") at tick t of the first hour of
\* 2025-01-01: the part of a second is dropped
strftime(t) ==
    LET seconds == t \div TicksPerSecond
    IN  <<"20250101_00">> \o TwoDigits((seconds \div 60) % 60) \o TwoDigits(seconds % 60)

\* datetime.now().isoformat(): the part of a second is kept
isoformat(t) ==
    LET seconds == t \div TicksPerSecond
    IN  <<"2025-01-01T00:">> \o TwoDigits((seconds \div 60) % 60) \o <<":">>
        \o TwoDigits(seconds % 60) \o <<".">> \o DigitsOf(t % TicksPerSecond)

\* line 54
script_filename(keyword, t) ==
    <<"youtube_shorts_">> \o sanitize_filename(keyword) \o <<"_">> \o strftime(t) \o <<".md">>

\* _format_script_content: lines 102-145, the parts that vary
format_script_content(keyword, script_content, t) ==
    <<"<# YouTube Shorts script ... keyword: >">> \o keyword
    \o <<"<created: >">> \o strftime(t)
    \o <<"<length: about >">> \o DigitsOf(Len(script_content)) \o <<"< characters>">>
    \o <<"<## script>">> \o script_content \o <<"<## guidelines ...>">>

\* open(filepath, "w") and f.write(file_content): lines 61-62.  An existing
\* file of that name is truncated.
written(directory, filename, file_content) ==
    [f \in DOMAIN directory \cup {filename} |->
        IF f = filename THEN file_content ELSE directory[f]]

OSError == <<"O", "S", "E", "r", "r", "o", "r">>

\* create_script_file: lines 36-87.  disk is "ok", or "fails" when makedirs
\* or open raises.  Returns the directory and the JSON text.
create_script_file(directory, keyword, script_content, t, disk) ==
    IF disk = "fails"
    THEN [files |-> directory, success |-> FALSE,
          text |-> JsonObject(
                     <<JsonMember("success", <<"false">>),
                       JsonMember("error",
                                  JsonString(<<"<An error occurred while creating the file: >">>
                                             \o OSError))>>, 0)]
    ELSE LET filename == script_filename(keyword, t)
             filepath == <<"scripts", "/">> \o filename
         IN  [files |-> written(directory, filename,
                                format_script_content(keyword, script_content, t)),
              success |-> TRUE,
              text |-> JsonObject(
                         <<JsonMember("success", <<"true">>),
                           JsonMember("message",
                                      JsonString(<<"<The script file was created.>">>)),
                           JsonMember("file_path", JsonString(filepath)),
                           JsonMember("keyword", JsonString(keyword)),
                           JsonMember("created_at", JsonString(isoformat(t)))>>, 0)]

KeywordAlphabet == {"a", "/", " ", "\n"}

\* a keyword of 51 characters that ends with last
LongKeyword(last) == [j \in 1..51 |-> IF j <= 50 THEN "k" ELSE last]

Keywords ==
    UNION {[1..n -> KeywordAlphabet] : n \in 0..MaxKeywordLen}
    \cup {LongKeyword("x"), LongKeyword("y")}

ScriptContents == {<<"s">>}

InitScripts ==
    /\ phase = "scripts"
    /\ files = Dict0
    /\ now = 0
    /\ created = 0
    /\ script_result = None
    /\ NoPlainText
    /\ NoCore
    /\ NoStartup
    /\ in_text = None
    /\ out_blocks = None
    /\ in_blocks = None
    /\ notion = NoClient
    /\ out_text = None
    /\ in_record = None
    /\ out_title = None
    /\ request = None
    /\ api_calls = <<>>
    /\ response = None

\* the create_youtube_script tool of mcp_server.py: lines 129-137
create_youtube_script ==
    /\ phase = "scripts"
    /\ created < MaxCalls
    /\ \E keyword \in Keywords, script_content \in ScriptContents, disk \in {"ok", "fails"} :
         LET result == create_script_file(files, keyword, script_content, now, disk)
         IN  /\ files' = result.files
             /\ created' = IF result.success THEN created + 1 ELSE created
             /\ script_result' = result.text
    /\ UNCHANGED <<phase, now, plain_vars, startup_vars, core_vars>>
    /\ UNCHANGED <<in_text, out_blocks, in_blocks, notion, out_text, in_record,
                   out_title, request, api_calls, response>>

\* time passes
Tick ==
    /\ phase = "scripts"
    /\ now < MaxTicks
    /\ now' = now + 1
    /\ UNCHANGED <<phase, files, created, script_result, plain_vars, startup_vars, core_vars>>
    /\ UNCHANGED <<in_text, out_blocks, in_blocks, notion, out_text, in_record,
                   out_title, request, api_calls, response>>

NextScripts == create_youtube_script \/ Tick

SpecScripts == InitScripts /\ [][NextScripts]_vars

----------------------------------------------------------------------------
(* Properties of SpecScripts *)

\* C20: one file per creation call: after n successful create_script_file
\* calls the directory holds n distinct script files; no call overwrites
\* the file of an earlier call.
C20_OneFilePerCall ==
    phase = "scripts" => Cardinality(DOMAIN files) = created

----------------------------------------------------------------------------
(* SpecCore: one call of a conversion routine, made to the module function  *)
(* of notion_service.py and to the method of NotionMCPServer on the same    *)
(* input and the same client.                                               *)

MaxCoreTextLen == 3

MaxCoreBlocks == 2

\* the dict d without the key k
Without(d, k) == [x \in DOMAIN d \ {k} |-> d[x]]

\* Payloads of the blocks given to the routines, with whether the block
\* holds the payload at all: four complete ones, then a span without
\* plain_text, a to_do without checked, a code without language, a payload
\* without rich_text and a block without the payload of its kind.
CorePayloads ==
    {<<"paragraph", [rich_text |-> <<Span(<<"a">>)>>], TRUE>>,
     <<"to_do", [rich_text |-> <<Span(<<"a">>)>>, checked |-> TRUE], TRUE>>,
     <<"code", [rich_text |-> <<Span(<<"a">>)>>, language |-> <<"p", "y">>], TRUE>>,
     <<"divider", [color |-> "default"], TRUE>>,
     <<"paragraph", [rich_text |-> <<[type |-> "mention"]>>], TRUE>>,
     <<"to_do", [rich_text |-> <<Span(<<"a">>)>>], TRUE>>,
     <<"code", [rich_text |-> <<Span(<<"a">>)>>], TRUE>>,
     <<"heading_1", [color |-> "default"], TRUE>>,
     <<"bulleted_list_item", [rich_text |-> <<Span(<<"a">>)>>], FALSE>>}

CoreNestings == {"none", "fails", "child"}

CoreBlockList(payloads, nestings) ==
    [i \in 1..Len(payloads) |->
        IF payloads[i][3] THEN BlockList(payloads, nestings)[i]
        ELSE Without(BlockList(payloads, nestings)[i], payloads[i][1])]

\* Records with at most one property
CoreRecords ==
    {p @@ t : p \in {Dict0} \cup {[properties |-> PropertyItems(<<v>>)] : v \in PropertyValues},
              t \in RecordTitles}

CoreTexts == UNION {[1..n -> Alphabet] : n \in 0..MaxCoreTextLen}

\* the routine has not been called
NotCalled == [kind |-> "none"]

InitCore ==
    /\ phase = "core"
    /\ \/ \E r \in CoreRecords :
            /\ core_call = [routine |-> "extract_title", input |-> r]
            /\ notion = NoClient
       \/ \E rich_text \in RichTexts :
            /\ core_call = [routine |-> "rich_text_to_plain_text", input |-> rich_text]
            /\ notion = NoClient
       \/ \E t \in CoreTexts :
            /\ core_call = [routine |-> "text_to_blocks", input |-> t]
            /\ notion = NoClient
       \/ \E n \in 0..MaxCoreBlocks :
            \E payloads \in [1..n -> CorePayloads], nestings \in [1..n -> CoreNestings] :
               /\ core_call = [routine |-> "blocks_to_text",
                               input |-> CoreBlockList(payloads, nestings)]
               /\ notion = [children |-> ChildrenAnswers(nestings)]
    /\ core_function = NotCalled
    /\ core_method = NotCalled
    /\ walk = None
    /\ NoPlainText
    /\ NoStartup
    /\ NoScripts
    /\ in_text = None
    /\ out_blocks = None
    /\ in_blocks = None
    /\ out_text = None
    /\ in_record = None
    /\ out_title = None
    /\ request = None
    /\ api_calls = <<>>
    /\ response = None

\* the call made to the module function of notion_service.py
notion_service_call(call, notion_client) ==
    CASE call.routine = "extract_title" -> Return(extract_title(call.input))
      [] call.routine = "rich_text_to_plain_text" ->
           Return(rich_text_to_plain_text(call.input))
      [] call.routine = "text_to_blocks" -> Return(text_to_blocks(call.input))
      [] call.routine = "blocks_to_text" -> blocks_to_text(call.input, notion_client)

\* the call made to the method of NotionMCPServer
NotionMCPServer_call(call, self_notion) ==
    CASE call.routine = "extract_title" -> Return(NotionMCPServer_extract_title(call.input))
      [] call.routine = "rich_text_to_plain_text" ->
           Return(NotionMCPServer_rich_text_to_plain_text(call.input))
      [] call.routine = "text_to_blocks" ->
           Return(NotionMCPServer_text_to_blocks(call.input))
      [] call.routine = "blocks_to_text" ->
           NotionMCPServer_blocks_to_text(call.input, self_notion)

ModuleFunction ==
    /\ phase = "core"
    /\ core_function.kind = "none"
    /\ core_function' = notion_service_call(core_call, notion)
    /\ UNCHANGED <<core_call, core_method, walk, plain_vars, startup_vars, script_vars>>
    /\ UNCHANGED <<phase, in_text, out_blocks, in_blocks, notion, out_text, in_record,
                   out_title, request, api_calls, response>>

ServerMethod ==
    /\ phase = "core"
    /\ core_method.kind = "none"
    /\ core_method' = NotionMCPServer_call(core_call, notion)
    /\ UNCHANGED <<core_call, core_function, walk, plain_vars, startup_vars, script_vars>>
    /\ UNCHANGED <<phase, in_text, out_blocks, in_blocks, notion, out_text, in_record,
                   out_title, request, api_calls, response>>

NextCore == ModuleFunction \/ ServerMethod

SpecCore == InitCore /\ [][NextCore]_vars

\* the last call of the outcome is a children fetch that the client fails
EndsInFailedFetch(outcome) ==
    /\ Len(outcome.calls) > 0
    /\ notion.children[outcome.calls[Len(outcome.calls)].block_id].kind = "raise"
    /\ outcome.exc = notion.children[outcome.calls[Len(outcome.calls)].block_id].exc

\* C23: the conversion routines are total.  extract_title,
\* rich_text_to_plain_text, text_to_blocks and blocks_to_text never raise on a
\* record with missing fields; the only failure of any of them is a failed
\* children fetch in blocks_to_text, and the empty record yields the title
\* sentinel.
C23_ConversionsAreTotal ==
    (phase = "core" /\ core_function.kind # "none") =>
        /\ core_function.kind = "raise" =>
              /\ core_call.routine = "blocks_to_text"
              /\ EndsInFailedFetch(core_function)
        /\ (core_call.routine = "extract_title" /\ core_call.input = Dict0) =>
              core_function = Return(<<"U+C81C", "U+BAA9", " ", "U+C5C6", "U+C74C">>)

\* C26: the two implementations of the conversion core agree.  For every
\* input and the same children-fetch answers, the methods _extract_title,
\* _rich_text_to_plain_text, _text_to_blocks and _blocks_to_text of
\* NotionMCPServer return the same result as the module functions of
\* notion_service, or fail with the same error after the same sequence of
\* fetch calls.
C26_ImplementationsAgree ==
    (phase = "core" /\ core_function.kind # "none" /\ core_method.kind # "none") =>
        /\ core_method.kind = core_function.kind
        /\ core_function.kind = "return" => core_method.value = core_function.value
        /\ core_function.kind = "raise" => core_method.exc = core_function.exc
        /\ core_call.routine = "blocks_to_text" => core_method.calls = core_function.calls

\* both implementations decoded two blocks, fetched the children of the
\* first and failed on the fetch of the second
C26_Witness ==
    /\ phase = "core"
    /\ core_call.routine = "blocks_to_text"
    /\ Len(core_call.input) = 2
    /\ core_function.kind = "raise"
    /\ core_method.kind = "raise"
    /\ Len(core_function.calls) = 2
    /\ core_method.calls = core_function.calls

----------------------------------------------------------------------------
(* SpecWalk: blocks_to_text run one step at a time on the interpreter's     *)
(* call stack, one frame for each call of blocks_to_text that has not       *)
(* returned.  The children relation of the client need not be a tree.       *)

MaxWalkBlocks == 2

\* sys.getrecursionlimit(): the frames the interpreter gives to nested calls
\* (1000 by default), scaled down
RecursionLimit == 4

RecursionError == <<"R", "e", "c", "u", "r", "s", "i", "o", "n", "E", "r", "r", "o", "r">>

\* a call of blocks_to_text at its first statement: line 56
Frame(block_list) == [blocks |-> block_list, i |-> 1, text_parts |-> <<>>, stage |-> "own"]

\* the exception leaves every frame
Unwound(w, exc) == [w EXCEPT !.stack = <<>>, !.result = Raise(exc)]

\* the stack with its top frame replaced
WithTop(stack, frame) == [stack EXCEPT ![Len(stack)] = frame]

\* lines 59-86 for the block at hand, then the test of line 89
walk_own_text(w) ==
    LET frame == w.stack[Len(w.stack)]
        block == frame.blocks[frame.i]
        own == own_text(block)
    IN  IF own.kind = "raise" THEN Unwound(w, own.exc)
        ELSE
          LET parts == frame.text_parts \o own.value
          IN  [w EXCEPT !.visited = Append(@, block.id),
                        !.stack = WithTop(@,
                            IF Get(block, "has_children", FALSE) = TRUE
                            THEN [frame EXCEPT !.text_parts = parts, !.stage = "fetch"]
                            ELSE [frame EXCEPT !.text_parts = parts, !.i = @ + 1])]

\* lines 90-91: the fetch, then the call of blocks_to_text on its results
walk_fetch(w, notion_client) ==
    LET frame == w.stack[Len(w.stack)]
        block == frame.blocks[frame.i]
        children == ChildrenList(notion_client, block.id)
        called == [w EXCEPT !.calls = Append(@, ListCall(block.id))]
    IN  IF children.kind = "raise" THEN Unwound(called, children.exc)
        ELSE IF Len(w.stack) >= RecursionLimit THEN Unwound(called, RecursionError)
        ELSE [called EXCEPT
                !.stack = Append(WithTop(@, [frame EXCEPT !.stage = "call"]),
                                 Frame(children.value.results))]

\* line 95 in the call that ends, then lines 92-93 in its caller
walk_return(w) ==
    LET n == Len(w.stack)
        text == Join(Separator, w.stack[n].text_parts)
    IN  IF n = 1 THEN [w EXCEPT !.stack = <<>>, !.result = Return(text)]
        ELSE [w EXCEPT
                !.stack = Append(SubSeq(@, 1, n - 2),
                                 [@[n - 1] EXCEPT !.text_parts = with_child_text(@, text),
                                                  !.i = @ + 1,
                                                  !.stage = "own"])]

WalkPayloads ==
    {<<"paragraph", [rich_text |-> <<Span(<<"a">>)>>]>>,
     <<"divider", [color |-> "default"]>>}

\* What is below a top-level block: as in Nestings, and a block that lists
\* itself as its child, a block whose child lists it, and a chain of
\* RecursionLimit descendants.
WalkNestings == {"none", "fails", "child", "grandchild", "self", "cycle", "deep"}

\* the id of the k-th descendant of block id along a chain
Ones(id, k) == id \o [j \in 1..k |-> "1"]

WalkAnswersBelow(id, nesting) ==
    CASE nesting = "self" ->
           <<<<id, Return([results |->
                   <<ApiBlock(id, <<"bulleted_list_item", [rich_text |-> <<Span(<<"c">>)>>]>>,
                              TRUE)>>])>>>>
      [] nesting = "cycle" ->
           <<<<id, Return([results |-> <<ChildOf(id, TRUE)>>])>>,
             <<id \o <<"1">>,
               Return([results |->
                   <<ApiBlock(id, <<"paragraph", [rich_text |-> <<Span(<<"d">>)>>]>>,
                              TRUE)>>])>>>>
      [] nesting = "deep" ->
           [k \in 1..RecursionLimit |->
               <<Ones(id, k - 1),
                 Return([results |->
                     <<ApiBlock(Ones(id, k),
                                <<"bulleted_list_item", [rich_text |-> <<Span(<<"c">>)>>]>>,
                                k < RecursionLimit)>>])>>]
      [] OTHER -> AnswersBelow(id, nesting)

WalkChildrenAnswers(nestings) ==
    LET pairs == Concat([i \in 1..Len(nestings) |->
                            WalkAnswersBelow(<<ToString(i)>>, nestings[i])])
    IN  [id \in {pairs[k][1] : k \in 1..Len(pairs)} |->
            (CHOOSE pr \in {pairs[k] : k \in 1..Len(pairs)} : pr[1] = id)[2]]

InitWalk ==
    /\ phase = "walk"
    /\ \E n \in 0..MaxWalkBlocks :
         \E payloads \in [1..n -> WalkPayloads], nestings \in [1..n -> WalkNestings] :
            /\ in_blocks = BlockList(payloads, nestings)
            /\ notion = [children |-> WalkChildrenAnswers(nestings)]
    /\ walk = [stack |-> <<Frame(in_blocks)>>, calls |-> <<>>, visited |-> <<>>,
               result |-> NotCalled]
    /\ core_call = None
    /\ core_function = None
    /\ core_method = None
    /\ NoPlainText
    /\ NoStartup
    /\ NoScripts
    /\ in_text = None
    /\ out_blocks = None
    /\ out_text = None
    /\ in_record = None
    /\ out_title = None
    /\ request = None
    /\ api_calls = <<>>
    /\ response = None

\* the frame of the call that is running
TopFrame == walk.stack[Len(walk.stack)]

WalkOwnText ==
    /\ phase = "walk"
    /\ Len(walk.stack) > 0
    /\ TopFrame.stage = "own"
    /\ TopFrame.i <= Len(TopFrame.blocks)
    /\ walk' = walk_own_text(walk)
    /\ UNCHANGED <<core_call, core_function, core_method, plain_vars, startup_vars,
                   script_vars>>
    /\ UNCHANGED <<phase, in_text, out_blocks, in_blocks, notion, out_text, in_record,
                   out_title, request, api_calls, response>>

WalkFetch ==
    /\ phase = "walk"
    /\ Len(walk.stack) > 0
    /\ TopFrame.stage = "fetch"
    /\ walk' = walk_fetch(walk, notion)
    /\ UNCHANGED <<core_call, core_function, core_method, plain_vars, startup_vars,
                   script_vars>>
    /\ UNCHANGED <<phase, in_text, out_blocks, in_blocks, notion, out_text, in_record,
                   out_title, request, api_calls, response>>

WalkReturn ==
    /\ phase = "walk"
    /\ Len(walk.stack) > 0
    /\ TopFrame.stage = "own"
    /\ TopFrame.i > Len(TopFrame.blocks)
    /\ walk' = walk_return(walk)
    /\ UNCHANGED <<core_call, core_function, core_method, plain_vars, startup_vars,
                   script_vars>>
    /\ UNCHANGED <<phase, in_text, out_blocks, in_blocks, notion, out_text, in_record,
                   out_title, request, api_calls, response>>

NextWalk == WalkOwnText \/ WalkFetch \/ WalkReturn

SpecWalk == InitWalk /\ [][NextWalk]_vars

\* the interpreter goes on running while a statement is left to run
SpecWalkFair == SpecWalk /\ WF_vars(NextWalk)

\* the tree below the blocks of the list has more than n levels
RECURSIVE DeeperThan(_, _)
DeeperThan(block_list, n) ==
    /\ Len(block_list) > 0
    /\ \/ n = 0
       \/ \E i \in 1..Len(block_list) :
             /\ block_list[i].has_children
             /\ notion.children[block_list[i].id].kind = "return"
             /\ DeeperThan(notion.children[block_list[i].id].value.results, n - 1)

\* every fetch in the first n levels below the blocks of the list answers
RECURSIVE FetchesAnswer(_, _)
FetchesAnswer(block_list, n) ==
    \A i \in 1..Len(block_list) :
        block_list[i].has_children =>
            /\ notion.children[block_list[i].id].kind = "return"
            /\ n = 0 \/ FetchesAnswer(notion.children[block_list[i].id].value.results, n - 1)

\* the ids of the blocks of the first n levels, in depth-first pre-order
RECURSIVE PreOrder(_, _)
PreOrder(block_list, n) ==
    IF Len(block_list) = 0 \/ n = 0 THEN <<>>
    ELSE LET b == block_list[Len(block_list)]
         IN  PreOrder([j \in 1..(Len(block_list) - 1) |-> block_list[j]], n)
             \o <<b.id>>
             \o (IF b.has_children /\ notion.children[b.id].kind = "return"
                 THEN PreOrder(notion.children[b.id].value.results, n - 1) ELSE <<>>)

\* The trees of the inputs have at most RecursionLimit + 1 levels: a children
\* relation with more levels than that is one with a cycle.
WellFounded == ~DeeperThan(in_blocks, RecursionLimit + 1)

EveryFetchAnswers == FetchesAnswer(in_blocks, RecursionLimit + 1)

\* the decode has returned after visiting every block of the tree once
ReturnedAfterEveryBlock ==
    /\ walk.result.kind = "return"
    /\ walk.visited = PreOrder(in_blocks, RecursionLimit + 1)

\* C28: blocks_to_text imposes no depth limit and terminates on every finite
\* block tree: if every children fetch answers with a finite list and the
\* children relation is well-founded, the decode eventually returns after
\* visiting every block of the tree exactly once; it does not terminate when
\* a fetched block (transitively) lists itself as a child with has_children
\* true.
C28_TerminatesOnFiniteTreesOnly ==
    /\ (phase = "walk" /\ EveryFetchAnswers /\ WellFounded) => <>ReturnedAfterEveryBlock
    /\ (phase = "walk" /\ EveryFetchAnswers /\ ~WellFounded) => [](walk.result.kind = "none")

\* The step-by-step run computes blocks_to_text: when it ends on a tree that
\* fits the stack, its result, its fetches and its visits are those of the
\* function.
WalkComputesBlocksToText ==
    (phase = "walk" /\ walk.stack = <<>> /\ ~DeeperThan(in_blocks, RecursionLimit)) =>
        LET decoded == blocks_to_text(in_blocks, notion)
        IN  /\ walk.result.kind = decoded.kind
            /\ walk.calls = decoded.calls
            /\ walk.result.kind = "return" =>
                  /\ walk.result.value = decoded.value
                  /\ walk.visited = PreOrder(in_blocks, RecursionLimit)

\* The run never holds more frames than the interpreter allows, and it ends
\* on every children relation: with a RecursionError, and one fetch for each
\* level of the stack, when the tree has more levels than the stack.
WalkEndsWithinRecursionLimit ==
    /\ [](phase = "walk" => Len(walk.stack) <= RecursionLimit)
    /\ phase = "walk" => <>(walk.stack = <<>> /\ walk.result.kind # "none")
    /\ (phase = "walk" /\ EveryFetchAnswers /\ DeeperThan(in_blocks, RecursionLimit)) =>
          <>(walk.result = Raise(RecursionError))

----------------------------------------------------------------------------
(* Spec: the server.  A tool invocation arrives, the handler of the tool    *)
(* runs to completion against the client, the result goes back.             *)

\* Start-up.  environ is os.environ after load_dotenv().

Token == <<"s", "e", "c", "r", "e", "t">>

\* NOTION_TOKEN absent, empty, set
Environs == {Dict0, [NOTION_TOKEN |-> <<>>], [NOTION_TOKEN |-> Token]}

\* the message of the ValueError of notion_service.py line 25 and
\* notion_mcp_server.py line 43
TokenNotSet == <<"<The environment variable NOTION_TOKEN is not set.>">>

\* Client(auth=notion_token)
Client(auth) == [built |-> TRUE, auth |-> auth]

\* a client built without looking at the token
get_notion_client_unchecked(env) == Return(Client(Get(env, "NOTION_TOKEN", <<>>)))

\* notion_service.py get_notion_client: lines 21-27
get_notion_client(env) ==
    IF ~HasKey(env, "NOTION_TOKEN") \/ Len(env.NOTION_TOKEN) = 0
    THEN Raise(TokenNotSet)
    ELSE Return(Client(env.NOTION_TOKEN))

\* NotionService.create: lines 168-172
NotionService_create(env) == get_notion_client(env)

\* the functions mcp_server.py registers with @mcp.tool(): lines 48-162
FastMCPTools ==
    {"search_notion", "get_page", "get_page_content", "create_page", "update_page",
     "query_database", "create_database_entry", "create_youtube_script",
     "list_youtube_scripts", "get_youtube_script", "delete_youtube_script"}

\* the handlers _register_tools registers: notion_mcp_server.py lines 51-219
ServerHandlers == {"list_tools", "call_tool"}

StartupFailed(impl, exc) ==
    [state |-> "failed", impl |-> impl, client |-> NotBuilt, tools |-> {}, exc |-> exc]

Running(impl, client, tools) ==
    [state |-> "running", impl |-> impl, client |-> client, tools |-> tools, exc |-> <<>>]

\* mcp_server.py as a script: NotionService.create() (lines 28-33, the
\* ValueError is raised again), the script service, FastMCP, the tools,
\* mcp.run()
mcp_server_script(env) ==
    LET notion_service == NotionService_create(env)
    IN  IF notion_service.kind = "raise" THEN StartupFailed("service", notion_service.exc)
        ELSE Running("service", notion_service.value, FastMCPTools)

\* notion_mcp_server.py main(): NotionMCPServer() (lines 40-49), then run()
NotionMCPServer_script(env) ==
    IF ~HasKey(env, "NOTION_TOKEN") \/ Len(env.NOTION_TOKEN) = 0
    THEN StartupFailed("server", TokenNotSet)
    ELSE Running("server", Client(env.NOTION_TOKEN), ServerHandlers)

NoRequest == [impl |-> "none", tool |-> "none", arguments |-> Dict0]

NoResponse == [kind |-> "none"]

Init ==
    /\ phase = "start"
    /\ environ \in Environs
    /\ server = NoServer
    /\ NoPlainText
    /\ NoCore
    /\ NoScripts
    /\ in_text = None
    /\ out_blocks = None
    /\ in_blocks = None
    /\ notion = FailingClient
    /\ out_text = NotDecoded
    /\ in_record = None
    /\ out_title = None
    /\ request = NoRequest
    /\ api_calls = <<>>
    /\ response = NoResponse

\* python mcp_server.py
mcp_server_main ==
    /\ phase = "start"
    /\ server' = mcp_server_script(environ)
    /\ phase' = IF server'.state = "running" THEN "idle" ELSE "failed"
    /\ UNCHANGED <<plain_vars, script_vars, environ, core_vars>>
    /\ UNCHANGED <<in_text, out_blocks, in_blocks, notion, out_text, in_record,
                   out_title, request, api_calls, response>>

\* python notion_mcp_server.py
NotionMCPServer_main ==
    /\ phase = "start"
    /\ server' = NotionMCPServer_script(environ)
    /\ phase' = IF server'.state = "running" THEN "idle" ELSE "failed"
    /\ UNCHANGED <<plain_vars, script_vars, environ, core_vars>>
    /\ UNCHANGED <<in_text, out_blocks, in_blocks, notion, out_text, in_record,
                   out_title, request, api_calls, response>>

\* mcp.run() hands an invocation to a registered tool function of
\* mcp_server.py
ToolRequest ==
    /\ phase = "idle"
    /\ server.impl = "service"
    /\ \E i \in Invocations :
         /\ i[1] \in server.tools
         /\ request' = [impl |-> "service", tool |-> i[1], arguments |-> i[2]]
         /\ notion' = i[3]
    /\ phase' = "pending"
    /\ UNCHANGED <<plain_vars, startup_vars, script_vars, core_vars>>
    /\ UNCHANGED <<in_text, out_blocks, in_blocks, out_text, in_record, out_title,
                   api_calls, response>>

\* the MCP server hands an invocation to the registered call_tool handler
CallToolRequest ==
    /\ phase = "idle"
    /\ server.impl = "server"
    /\ "call_tool" \in server.tools
    /\ \E i \in ServerRequests :
         /\ request' = [impl |-> "server", tool |-> i[1], arguments |-> i[2]]
         /\ notion' = i[3]
    /\ phase' = "pending"
    /\ UNCHANGED <<plain_vars, startup_vars, script_vars, core_vars>>
    /\ UNCHANGED <<in_text, out_blocks, in_blocks, out_text, in_record, out_title,
                   api_calls, response>>

\* the handler ran: its result, the calls it issued, what its decode left
Handled(outcome) ==
    /\ response' = [k \in DOMAIN outcome \ {"calls", "content"} |-> outcome[k]]
    /\ api_calls' = outcome.calls
    /\ out_text' = Get(outcome, "content", NotDecoded)
    /\ phase' = "done"
    /\ UNCHANGED <<plain_vars, startup_vars, script_vars, core_vars>>
    /\ UNCHANGED <<in_text, out_blocks, in_blocks, notion, in_record, out_title, request>>

Serving(tool) == phase = "pending" /\ request.impl = "service" /\ request.tool = tool

search_notion ==
    Serving("search_notion") /\ Handled(NotionService_search(request.arguments, notion))

get_page ==
    Serving("get_page") /\ Handled(NotionService_get_page_info(request.arguments, notion))

get_page_content ==
    /\ Serving("get_page_content")
    /\ Handled(NotionService_get_page_content(request.arguments, notion))

create_page ==
    Serving("create_page") /\ Handled(NotionService_create_page(request.arguments, notion))

update_page ==
    Serving("update_page") /\ Handled(NotionService_update_page(request.arguments, notion))

query_database ==
    /\ Serving("query_database")
    /\ Handled(NotionService_query_database(request.arguments, notion))

create_database_entry ==
    /\ Serving("create_database_entry")
    /\ Handled(NotionService_create_database_entry(request.arguments, notion))

CallTool ==
    /\ phase = "pending"
    /\ request.impl = "server"
    /\ Handled(call_tool(request.tool, request.arguments, notion))

\* the result went back; the server waits for the next invocation
Respond ==
    /\ phase = "done"
    /\ phase' = "idle"
    /\ notion' = FailingClient
    /\ out_text' = NotDecoded
    /\ request' = NoRequest
    /\ api_calls' = <<>>
    /\ response' = NoResponse
    /\ UNCHANGED <<plain_vars, startup_vars, script_vars, core_vars>>
    /\ UNCHANGED <<in_text, out_blocks, in_blocks, in_record, out_title>>

Next ==
    \/ mcp_server_main
    \/ NotionMCPServer_main
    \/ ToolRequest
    \/ CallToolRequest
    \/ search_notion
    \/ get_page
    \/ get_page_content
    \/ create_page
    \/ update_page
    \/ query_database
    \/ create_database_entry
    \/ CallTool
    \/ Respond

Spec == Init /\ [][Next]_vars

----------------------------------------------------------------------------
(* Properties of Spec *)

\* the text a finished invocation gave back
ResultText ==
    IF request.impl = "server" THEN response.value.content[1].text ELSE response.value

\* the client answered this call with a failure
Failed(call) ==
    CASE call.api = "search" -> notion.search.kind = "raise"
      [] call.api = "pages.retrieve" -> notion.retrieve.kind = "raise"
      [] call.api = "blocks.children.list" -> notion.children[call.block_id].kind = "raise"
      [] call.api = "pages.create" -> notion.create.kind = "raise"
      [] call.api = "pages.update" -> notion.update.kind = "raise"
      [] call.api = "blocks.children.append" -> notion.append.kind = "raise"
      [] call.api = "databases.query" -> notion.query.kind = "raise"

SomeCallFailed == \E k \in 1..Len(api_calls) : Failed(api_calls[k])

\* a children fetch issued by blocks_to_text failed
SomeFetchFailed ==
    /\ out_text.kind # "none"
    /\ \E k \in 1..Len(out_text.calls) : Failed(out_text.calls[k])

\* the error message of each NotionService method
ErrorMessageOf(tool) ==
    CASE tool = "search_notion" -> SearchError
      [] tool = "get_page" -> PageInfoError
      [] tool = "get_page_content" -> PageContentError
      [] tool = "create_page" -> PageCreateError
      [] tool = "update_page" -> PageUpdateError
      [] tool = "query_database" -> QueryError
      [] tool = "create_database_entry" -> EntryCreateError

\* C6: when a children fetch fails while decoding, at any depth,
\* blocks_to_text returns no markdown and the failure reaches the caller;
\* get_page_content then returns only an error string, which holds none of
\* the text decoded before the failure.
C6_FetchFailureAbortsDecode ==
    (phase = "done" /\ request.tool = "get_page_content" /\ SomeFetchFailed) =>
        /\ out_text.kind = "raise"
        /\ "value" \notin DOMAIN out_text
        /\ response.kind = "return"
        /\ ResultText = (IF request.impl = "server" THEN ToolError ELSE PageContentError)
                        \o out_text.exc
        /\ \A k \in 1..Len(out_text.rendered) :
              Len(out_text.rendered[k]) > 0 => ~Occurs(ResultText, out_text.rendered[k])

\* the fetch below a child failed after two texts had been decoded
C6_Witness ==
    /\ phase = "done"
    /\ request.tool = "get_page_content"
    /\ request.impl = "service"
    /\ SomeFetchFailed
    /\ Len(out_text.calls) = 2
    /\ Len(out_text.calls[2].block_id) = 2
    /\ out_text.rendered = <<<<"a">>, <<"-", " ", "c">>>>

\* C7: no failure of the API escapes a tool invocation: every NotionService
\* method returns, and after a failed API call what it returns is its error
\* string; call_tool returns a text result, marked isError after a failed
\* API call and for an unknown tool name; neither raises.
C7_NoFailureEscapes ==
    phase = "done" =>
        /\ response.kind = "return"
        /\ request.impl = "service" =>
              (SomeCallFailed =>
                  ResultText = ErrorMessageOf(request.tool) \o APIError)
        /\ request.impl = "server" =>
              /\ Len(response.value.content) = 1
              /\ response.value.content[1].type = "text"
              /\ (SomeCallFailed \/ request.tool = "delete_page") => response.value.isError

\* create_page returned after its append call had failed
C7_Witness ==
    /\ phase = "done"
    /\ request.impl = "service"
    /\ request.tool = "create_page"
    /\ Len(api_calls) = 2
    /\ Failed(api_calls[2])
    /\ response.kind = "return"

ErrorMessages ==
    {SearchError, PageInfoError, PageContentError, PageCreateError, PageUpdateError,
     QueryError, EntryCreateError, ToolError, UnknownTool}

IsErrorMessage(t) == \E m \in ErrorMessages : OccursAt(t, m, 1)

\* t ends with a JSON list or object that starts somewhere in t
EmbedsJson(t) ==
    \E i \in 1..Len(t) :
        \/ t[i] = "[" /\ t[Len(t)] = "]"
        \/ t[i] = "{" /\ t[Len(t)] = "}"

\* C8 as stated: every text result of every handler is a success message
\* embedding a JSON payload or an error message string.
C8_JsonPayloadOrError ==
    phase = "done" => (IsErrorMessage(ResultText) \/ EmbedsJson(ResultText))

\* C8 amended: the results of search_notion, get_page and query_database are
\* a header followed by a JSON payload or an error message string; the
\* success result of get_page_content is the markdown "# <title>", a blank
\* line and the content, that of create_page and create_database_entry a
\* message followed by an "ID: " line and a "URL: " line, that of update_page
\* a fixed message, none of them with a JSON payload; every other result is
\* an error message string.
C8_ResultShapes ==
    phase = "done" =>
        \/ IsErrorMessage(ResultText)
        \/ /\ request.tool = "search_notion"
           /\ OccursAt(ResultText, <<"<Search results (>">>, 1)
           /\ EmbedsJson(ResultText)
        \/ /\ request.tool = "get_page"
           /\ OccursAt(ResultText, <<"<Page information:>", "\n", "{">>, 1)
           /\ EmbedsJson(ResultText)
        \/ /\ request.tool = "query_database"
           /\ OccursAt(ResultText, <<"<Database query results (>">>, 1)
           /\ EmbedsJson(ResultText)
        \/ /\ request.tool = "get_page_content"
           /\ OccursAt(ResultText, <<"#", " ">>, 1)
           /\ \E i \in 1..Len(ResultText) :
                 /\ OccursAt(ResultText, <<"\n", "\n">>, i)
                 /\ AfterPrefix(ResultText, i + 1) = out_text.value
           /\ ~EmbedsJson(ResultText)
        \/ /\ request.tool \in {"create_page", "create_database_entry"}
           /\ ResultText[1] \in {"<The page was created successfully!>",
                                 "<The database entry was created successfully!>"}
           /\ OccursAt(ResultText, <<"\n", "I", "D", ":", " ">>, 2)
           /\ Occurs(ResultText, <<"\n", "U", "R", "L", ":", " ">>)
           /\ ~EmbedsJson(ResultText)
        \/ /\ request.tool = "update_page"
           /\ ResultText = <<"<The page was updated successfully!>">>

\* get_page_content returned the markdown of a page with two blocks
C8_Witness ==
    /\ phase = "done"
    /\ request.impl = "service"
    /\ request.tool = "get_page_content"
    /\ out_text.kind = "return"
    /\ Len(out_text.rendered) = 2
    /\ ~IsErrorMessage(ResultText)
    /\ ~EmbedsJson(ResultText)

\* NOTION_TOKEN is absent or empty
NoCredential == "NOTION_TOKEN" \notin DOMAIN environ \/ Len(environ.NOTION_TOKEN) = 0

FilterArgument == IF request.impl = "server" THEN "filter" ELSE "filter_condition"

\* the request the specification builds from the arguments that satisfy Sent
SearchRequestOf(args, Sent(_, _)) ==
    [query |-> args.query]
    @@ (IF Sent(args, "filter_type")
        THEN [filter |-> [value |-> args.filter_type, property |-> "object"]]
        ELSE [k \in {} |-> 0])

QueryRequestOf(args, Sent(_, _)) ==
    [database_id |-> args.database_id]
    @@ (IF Sent(args, FilterArgument) THEN [filter |-> args[FilterArgument]]
        ELSE [k \in {} |-> 0])
    @@ (IF Sent(args, "sorts") THEN [sorts |-> args.sorts] ELSE [k \in {} |-> 0])

IsPresent(args, key) == key \in DOMAIN args

IsPresentAndNonEmpty(args, key) == key \in DOMAIN args /\ args[key] # <<>>

RequestBuiltFrom(Sent(_, _)) ==
    /\ (phase = "done" /\ request.tool = "search_notion" /\ "query" \in DOMAIN request.arguments)
       => /\ Len(api_calls) = 1
          /\ api_calls[1].api = "search"
          /\ api_calls[1].params = SearchRequestOf(request.arguments, Sent)
    /\ (/\ phase = "done"
        /\ request.tool = "query_database"
        /\ "database_id" \in DOMAIN request.arguments)
       => /\ Len(api_calls) = 1
          /\ api_calls[1].api = "databases.query"
          /\ api_calls[1].params = QueryRequestOf(request.arguments, Sent)

\* C16 as stated: search and query_database send the required argument and
\* exactly the optional arguments present in the call (filter_type as filter
\* {value, property "object"}, filter_condition as filter, sorts as sorts).
C16_PresentArgumentsSent == RequestBuiltFrom(IsPresent)

\* C16 amended: search and query_database send the required argument and
\* exactly the optional arguments that are present and not empty; an empty
\* string, mapping or list is not sent, like an absent argument.
C16_NonEmptyArgumentsSent == RequestBuiltFrom(IsPresentAndNonEmpty)

\* a query with a filter and sorts sent both; a search without filter_type
\* sent the query only
C16_Witness ==
    /\ phase = "done"
    /\ Len(api_calls) = 1
    /\ \/ /\ request.tool = "query_database"
          /\ DOMAIN api_calls[1].params = {"database_id", "filter", "sorts"}
          /\ api_calls[1].params.filter = [property |-> "Status"]
       \/ /\ request.tool = "search_notion"
          /\ "filter_type" \notin DOMAIN request.arguments
          /\ "query" \in DOMAIN request.arguments
          /\ api_calls[1].params = [query |-> <<"q">>]

\* the content argument of the invocation, empty when it is not given
ContentArgument ==
    IF "content" \in DOMAIN request.arguments THEN request.arguments.content ELSE <<>>

\* C17: a create_page invocation issues pages.create exactly once, as its
\* first call; after a successful creation it issues blocks.children.append
\* exactly once, on the id of the new page and with the blocks encoded from
\* content, exactly when content has a non-blank line, and no append call
\* when content is empty or blank; on success the result names the id and
\* the url of the new page.
C17_CreateThenAppendOnce ==
    (/\ phase = "done"
     /\ request.tool = "create_page"
     /\ {"parent_id", "title"} \subseteq DOMAIN request.arguments)
    => LET lines == NonBlankLines(ContentArgument)
       IN  /\ Len(api_calls) >= 1
           /\ api_calls[1].api = "pages.create"
           /\ \A k \in 2..Len(api_calls) : api_calls[k].api # "pages.create"
           /\ IF notion.create.kind = "return"
              THEN /\ Len(lines) > 0 =>
                        /\ Len(api_calls) = 2
                        /\ api_calls[2].api = "blocks.children.append"
                        /\ api_calls[2].block_id = notion.create.value.id
                        /\ Len(api_calls[2].children) = Len(lines)
                        /\ \A i \in 1..Len(lines) :
                              /\ api_calls[2].children[i].type = MarkerOf(lines[i]).type
                              /\ ContentOf(api_calls[2].children[i])
                                   = AfterPrefix(lines[i], Len(MarkerOf(lines[i]).prefix))
                   /\ Len(lines) = 0 => Len(api_calls) = 1
                   /\ ~IsErrorMessage(ResultText) =>
                        /\ Occurs(ResultText, notion.create.value.id)
                        /\ Occurs(ResultText, notion.create.value.url)
              ELSE Len(api_calls) = 1

\* a page was created and the two blocks of its content appended
C17_Witness ==
    /\ phase = "done"
    /\ request.tool = "create_page"
    /\ Len(api_calls) = 2
    /\ api_calls[2].block_id = <<"new-page-id">>
    /\ Len(api_calls[2].children) = 2
    /\ ~IsErrorMessage(ResultText)
    /\ Occurs(ResultText, <<"new-page-id">>)

\* the parent of a new page as the API names it: a page by page_id, a
\* database by database_id
ParentOf(id) ==
    IF id = <<"db-1">> THEN [database_id |-> id] ELSE [page_id |-> id]

\* C18: create_page creates the page under the parent named by parent_id
\* whether it is a page or a database: the request refers to parent_id as a
\* page id when it names a page and as a database id when it names a
\* database.
C18_ParentByKind ==
    (/\ phase = "done"
     /\ request.tool = "create_page"
     /\ {"parent_id", "title"} \subseteq DOMAIN request.arguments)
    => /\ Len(api_calls) >= 1
       /\ api_calls[1].api = "pages.create"
       /\ api_calls[1].parent = ParentOf(request.arguments.parent_id)

\* the calls of the log that name the API a
CallsOf(a) == {k \in 1..Len(api_calls) : api_calls[k].api = a}

\* the invocation ended with an error result
EndedInError ==
    IF request.impl = "server" THEN response.value.isError ELSE IsErrorMessage(ResultText)

\* C19: no API call is retried: in one invocation only the last call can
\* have failed, a failed call ends the invocation with an error result, each
\* of search, pages.retrieve, pages.create, pages.update,
\* blocks.children.append and databases.query is issued at most once, and
\* blocks.children.list at most once for each block.
C19_NoRetry ==
    phase = "done" =>
        /\ \A k \in 1..Len(api_calls) : Failed(api_calls[k]) => k = Len(api_calls)
        /\ SomeCallFailed => EndedInError
        /\ \A a \in {"search", "pages.retrieve", "pages.create", "pages.update",
                      "blocks.children.append", "databases.query"} :
              Cardinality(CallsOf(a)) <= 1
        /\ \A k, l \in CallsOf("blocks.children.list") :
              api_calls[k].block_id = api_calls[l].block_id => k = l

\* the fetch below the child of the first block failed; the second block,
\* which has children too, was not fetched
C19_Witness ==
    /\ phase = "done"
    /\ request.tool = "get_page_content"
    /\ Len(api_calls) = 4
    /\ Failed(api_calls[4])
    /\ api_calls[4].block_id = <<"1", "1">>
    /\ notion.children[<<"page-1">>].kind = "return"
    /\ Len(notion.children[<<"page-1">>].value.results) = 2
    /\ notion.children[<<"page-1">>].value.results[2].has_children
    /\ EndedInError


\* the message a write handler returns on success
SuccessMessageOf(tool) == IF tool = "create_page" THEN PageCreated ELSE PageUpdated

\* the last call of the invocation is an append that failed
AppendFailed ==
    /\ Len(api_calls) > 0
    /\ api_calls[Len(api_calls)].api = "blocks.children.append"
    /\ Failed(api_calls[Len(api_calls)])

\* C24: the write handlers are not atomic and issue their calls in a fixed
\* order: create_page creates the page before appending blocks, update_page
\* updates the title before appending blocks; when the first call fails no
\* later call is issued; when the append fails, the creation or the title
\* update issued before it has succeeded and stays, while the handler
\* returns its error string and not the success message (for create_page, a
\* string without the id of the new page).
C24_WritesInOrderNotAtomic ==
    (/\ phase = "done"
     /\ request.tool \in {"create_page", "update_page"}
     /\ (request.tool = "create_page" => {"parent_id", "title"} \subseteq DOMAIN request.arguments)
     /\ (request.tool = "update_page" => "page_id" \in DOMAIN request.arguments))
    => LET first == IF request.tool = "create_page" THEN "pages.create" ELSE "pages.update"
       IN  /\ \A k \in CallsOf("blocks.children.append") :
                 /\ k = Len(api_calls)
                 /\ \A l \in CallsOf(first) : l < k
                 /\ request.tool = "create_page" => CallsOf(first) = {1}
           /\ \A k \in 1..Len(api_calls) :
                 api_calls[k].api \in {first, "blocks.children.append"}
           /\ (Len(api_calls) > 0 /\ Failed(api_calls[1])) =>
                 /\ Len(api_calls) = 1
                 /\ EndedInError
           /\ AppendFailed =>
                 /\ \A l \in CallsOf(first) : ~Failed(api_calls[l])
                 /\ EndedInError
                 /\ request.impl # "server" =>
                       OccursAt(ResultText, ErrorMessageOf(request.tool), 1)
                 /\ ~Occurs(ResultText, SuccessMessageOf(request.tool))
                 /\ request.tool = "create_page" =>
                       ~Occurs(ResultText, notion.create.value.id)

\* a page was created, then the append of its content failed: the result is
\* the error string although the page exists
C24_Witness ==
    /\ phase = "done"
    /\ request.tool = "create_page"
    /\ Len(api_calls) = 2
    /\ api_calls[1].api = "pages.create"
    /\ ~Failed(api_calls[1])
    /\ AppendFailed
    /\ EndedInError

\* a title was updated, then the append failed
C24_WitnessUpdate ==
    /\ phase = "done"
    /\ request.tool = "update_page"
    /\ Len(api_calls) = 2
    /\ api_calls[1].api = "pages.update"
    /\ ~Failed(api_calls[1])
    /\ AppendFailed
    /\ EndedInError


\* the API calls that read the external store
ReadCalls == {"search", "pages.retrieve", "blocks.children.list", "databases.query"}

\* the API calls that change it
WriteCalls == {"pages.create", "pages.update", "blocks.children.append"}

\* the calls each read handler may issue
ReadCallsOf(tool) ==
    CASE tool = "search_notion" -> {"search"}
      [] tool = "get_page" -> {"pages.retrieve"}
      [] tool = "get_page_content" -> {"pages.retrieve", "blocks.children.list"}
      [] tool = "query_database" -> {"databases.query"}

\* C25: the read handlers leave the external store unchanged: search,
\* get_page, get_page_content and query_database issue only search,
\* retrieve-page, list-block-children and query-database calls, never
\* create-page, update-page or append-block-children; and an update_page
\* invocation with neither title nor content issues no API call at all and
\* still returns the success message.
C25_ReadsDoNotWrite ==
    phase = "done" =>
        /\ request.tool \in {"search_notion", "get_page", "get_page_content",
                             "query_database"} =>
              \A k \in 1..Len(api_calls) :
                  /\ api_calls[k].api \in ReadCallsOf(request.tool)
                  /\ api_calls[k].api \in ReadCalls
                  /\ api_calls[k].api \notin WriteCalls
        /\ (request.tool = "update_page" /\ DOMAIN request.arguments = {"page_id"}) =>
              /\ api_calls = <<>>
              /\ ~EndedInError
              /\ ResultText = PageUpdated

\* update_page with the page id only: no call, and the success message
C25_Witness ==
    /\ phase = "done"
    /\ request.tool = "update_page"
    /\ DOMAIN request.arguments = {"page_id"}
    /\ api_calls = <<>>
    /\ ResultText = PageUpdated

\* get_page_content read the page, its blocks and the blocks below them
C25_WitnessRead ==
    /\ phase = "done"
    /\ request.tool = "get_page_content"
    /\ Len(api_calls) >= 3
    /\ \A k \in 1..Len(api_calls) : api_calls[k].api \in ReadCalls
    /\ ~EndedInError


\* the positions of the text where a JSON member with this key starts
MembersOf(t, key) == {i \in 1..Len(t) : OccursAt(t, <<"\"", key, "\"", ":", " ", "\"">>, i)}

\* the first element of the string value of each member with this key, in
\* the order of the text
ValuesOf(t, key) ==
    LET at == MembersOf(t, key)
    IN  [k \in 1..Cardinality(at) |->
            t[(CHOOSE p \in at : Cardinality({q \in at : q < p}) = k - 1) + 6]]

IsPageOrDatabase(result) == result.object \in {"page", "database"}

\* C29: search keeps the order of the API's result list and includes exactly
\* the results whose object is "page" or "database", dropping every other
\* result; the count in the header is the number of entries of the embedded
\* list, not the number of results the API returned; for query_database the
\* count is the number of records the API returned, each of them an entry.
C29_SearchKeepsPagesAndDatabases ==
    (phase = "done" /\ ~EndedInError) =>
        /\ (request.tool = "search_notion" /\ notion.search.kind = "return") =>
              LET kept == SelectSeq(notion.search.value.results, IsPageOrDatabase)
              IN  /\ OccursAt(ResultText, SearchHeader(Len(kept)), 1)
                  /\ ValuesOf(ResultText, "type") = [k \in 1..Len(kept) |-> kept[k].object]
                  /\ ValuesOf(ResultText, "id") = [k \in 1..Len(kept) |-> kept[k].id[1]]
                  /\ ValuesOf(ResultText, "title")
                        = [k \in 1..Len(kept) |->
                              IF kept[k].object = "database" THEN "B"
                              ELSE IF "title" \in DOMAIN kept[k].properties[1][2]
                              THEN "A" ELSE "U+C81C"]
                  /\ Cardinality(MembersOf(ResultText, "url")) = Len(kept)
        /\ (request.tool = "query_database" /\ notion.query.kind = "return") =>
              LET records == notion.query.value.results
              IN  /\ OccursAt(ResultText, QueryHeader(Len(records)), 1)
                  /\ Cardinality(MembersOf(ResultText, "url")) = Len(records)

\* the API returned a user and then a database: the header counts one item
\* and the list holds the database only
C29_Witness ==
    /\ phase = "done"
    /\ request.tool = "search_notion"
    /\ notion.search.kind = "return"
    /\ Len(notion.search.value.results) = 2
    /\ notion.search.value.results[1].object = "user"
    /\ notion.search.value.results[2].object = "database"
    /\ OccursAt(ResultText, SearchHeader(1), 1)
    /\ ValuesOf(ResultText, "type") = <<"database">>

====
